---- MODULE Spec2Model ----
(***************************************************************************)
(* Credential-integrity subsystem of the blogging service: identity        *)
(* uniqueness (UserService over the users table), password hashing         *)
(* (Argon2 implementation and the helpers used by the User model) and the  *)
(* stateless reset tokens.                                                 *)
(*                                                                         *)
(* Text values are sequences of one-character strings, so that lower(),    *)
(* strip() and concatenation are computed, not assumed.  Python's None is  *)
(* the one-element sequence None, whose element is outside the alphabet.   *)
(***************************************************************************)
EXTENDS Integers, Sequences, FiniteSets, TLC

\* ---------------------------------------------------------------------------
\* Bounds of the model
\* ---------------------------------------------------------------------------
MaxUsers == 2
NumSalts == 1

Salts == 1..NumSalts

\* Requests in flight at the same time: a race needs two.
Procs == {1, 2}

\* ---------------------------------------------------------------------------
\* Text values
\* ---------------------------------------------------------------------------
None == <<"<None>">>

truthy(s) == s # None /\ s # <<>>

lower_char(c) ==
    IF c = "A" THEN "a" ELSE IF c = "B" THEN "b" ELSE IF c = "P" THEN "p"
    ELSE IF c = "X" THEN "x" ELSE c

lower(s) == [i \in 1..Len(s) |-> lower_char(s[i])]

RECURSIVE lstrip(_)
lstrip(s) == IF s # <<>> /\ Head(s) = " " THEN lstrip(Tail(s)) ELSE s

RECURSIVE rstrip(_)
rstrip(s) ==
    IF s # <<>> /\ s[Len(s)] = " " THEN rstrip(SubSeq(s, 1, Len(s) - 1)) ELSE s

strip(s) == rstrip(lstrip(s))

\* Inputs a caller may submit.
NameInputs == { <<"a">>, <<"A">>, <<"b">>, <<" ", "a">>, <<" ">>, <<>>, None }
EmailInputs == { <<"x">>, <<"X">>, <<"y">>, None }
PasswordInputs == { <<"p">>, <<"q">>, <<>>, None }
AboutInputs == { <<>>, <<"h">> }

\* A password with a letter of each case, a digit and a special character.
StrongPassword == <<"P", "a", "s", "s", "w", "0", "r", "d", "!">>
ServicePasswords == { <<"p">>, StrongPassword, <<>>, None }

\* ---------------------------------------------------------------------------
\* State
\* ---------------------------------------------------------------------------
VARIABLES
    users,      \* committed rows of the "users" table
    nextId,     \* autoincrement primary key
    req,        \* per request: position in its handler, inputs, outcome
    config,     \* Flask configuration (SECRET_KEY, ARGON2_PEPPER)
    argon,      \* the last hash call (h) and the last verify call since (v)
    now,        \* time(), in whole seconds
    issued,     \* reset tokens handed out so far
    tok,        \* the verify_reset_token call made in the last step, if any
    uq,         \* last validate_unique call
    registry,   \* _HASHER_REGISTRY: the entries (key, class) of the dict
    hsr,        \* hashing facade: phase, register calls so far, Hasher, last call
    pol,        \* the last Argon2Policy construction
    pwpol,      \* the last PasswordPolicy construction and validate call
    web,        \* routes: followers table, mail sent, the last view's response
    cal         \* a calibration loop: parameter under test, measurements, result

vars == <<users, nextId, req, config, argon, now, issued, tok, uq, registry, hsr, pol, pwpol, web, cal>>

\* The variables of the identity, token and hashing flows.
idvars == <<users, nextId, req, config, argon, now, issued, tok, uq>>

\* ---------------------------------------------------------------------------
\* argon2.PasswordHasher, the hashing primitive.  The digest of an ideal hash
\* is modelled by its pre-image: two digests agree iff the secrets agree.
\* ---------------------------------------------------------------------------
NoHash == [kind |-> "none", time_cost |-> 0, memory_cost |-> 0, salt |-> 0, digest |-> <<>>]
EmptyHash == [NoHash EXCEPT !.kind = "empty"]
MalformedHash == [NoHash EXCEPT !.kind = "malformed"]

PasswordHasher_hash(params, secret, salt) ==
    [kind |-> "argon2", time_cost |-> params.time_cost,
     memory_cost |-> params.memory_cost, salt |-> salt, digest |-> secret]

\* Returns True or raises: the result names the exception.
PasswordHasher_verify(hash, secret) ==
    IF hash.kind # "argon2" THEN "InvalidHashError"
    ELSE IF hash.digest = secret THEN "True"
    ELSE "VerifyMismatchError"

falsy_hash(h) == h.kind \in {"none", "empty"}

\* ---------------------------------------------------------------------------
\* app/helpers/security.py: the hashing helpers the User model calls
\* ---------------------------------------------------------------------------
get_hasher(cfg) ==
    [time_cost |-> cfg.ARGON2_TIME_COST, memory_cost |-> cfg.ARGON2_MEMORY_COST]

with_pepper(cfg, password) == password \o cfg.ARGON2_PEPPER

\* the password is case-folded before it is hashed
hash_password_Lowered(cfg, password, salt) ==
    PasswordHasher_hash(get_hasher(cfg), with_pepper(cfg, lower(password)), salt)

hash_password(cfg, password, salt) ==
    PasswordHasher_hash(get_hasher(cfg), with_pepper(cfg, password), salt)

verify_password(cfg, stored_hash, password) ==
    IF falsy_hash(stored_hash) \/ ~truthy(password) THEN "False"
    ELSE LET r == PasswordHasher_verify(stored_hash, with_pepper(cfg, password))
         IN  IF r = "VerifyMismatchError" THEN "False"
             ELSE r   \* True, or InvalidHashError propagating to the caller

\* ---------------------------------------------------------------------------
\* app/security/policies/password_policy.py and SecurityFactory: the password
\* strength policy.  The character classes are those of the regular
\* expressions [A-Z], [a-z], \d and [^A-Za-z0-9].
\* ---------------------------------------------------------------------------
UpperChars == {"A", "B", "P", "X"}
LowerChars == {"a", "b", "d", "h", "k", "m", "p", "q", "r", "s", "w", "x", "y"}
AsciiDigitChars == {"0", "1"}
\* \d on a str pattern matches every Unicode decimal digit; "U+0663" stands
\* for ARABIC-INDIC DIGIT THREE, one character.
DigitChars == AsciiDigitChars \cup {"U+0663"}

is_special(c) == c \notin UpperChars \cup LowerChars \cup AsciiDigitChars

PASSWORD_MIN_LEN_RECOMMENDED == 12
PASSWORD_MIN_LEN_MAX == 128

\* no warning for a minimum length above the ceiling
PasswordPolicy_post_init_NoCeiling(self) ==
    IF self.min_length < 1
    THEN [exc |-> "InvalidPolicyConfig", warnings |-> {}]
    ELSE [exc |-> "none",
          warnings |-> IF self.min_length < PASSWORD_MIN_LEN_RECOMMENDED
                       THEN {"min_length is below recommended minimum"} ELSE {}]

\* __post_init__: the exception raised ("none" when the object is built) and
\* the warnings logged before leaving.
PasswordPolicy_post_init(self) ==
    IF self.min_length < 1
    THEN [exc |-> "InvalidPolicyConfig", warnings |-> {}]
    ELSE [exc |-> "none",
          warnings |->
              (IF self.min_length > PASSWORD_MIN_LEN_MAX
               THEN {"min_length is unusually high"} ELSE {})
              \cup
              (IF self.min_length < PASSWORD_MIN_LEN_RECOMMENDED
               THEN {"min_length is below recommended minimum"} ELSE {})]

get_password_policy(cfg) ==
    [min_length |-> cfg.PASSWORD_MIN_LENGTH,
     require_upper |-> cfg.PASSWORD_REQUIRE_UPPER,
     require_lower |-> cfg.PASSWORD_REQUIRE_LOWER,
     require_digit |-> cfg.PASSWORD_REQUIRE_DIGIT,
     require_special |-> cfg.PASSWORD_REQUIRE_SPECIAL]

\* the digit rule is tested before the letter rules
PasswordPolicy_validate_DigitFirst(policy, password) ==
    LET has(class) == \E i \in 1..Len(password) : password[i] \in class
    IN  IF Len(password) < policy.min_length
        THEN "Password must be at least min_length characters long."
        ELSE IF policy.require_digit /\ ~has(DigitChars)
        THEN "Password must contain at least one digit."
        ELSE IF policy.require_upper /\ ~has(UpperChars)
        THEN "Password must contain at least one uppercase letter."
        ELSE IF policy.require_lower /\ ~has(LowerChars)
        THEN "Password must contain at least one lowercase letter."
        ELSE IF policy.require_special
                /\ ~(\E i \in 1..Len(password) : is_special(password[i]))
        THEN "Password must contain at least one special character."
        ELSE "ok"

\* validate: "ok" when it returns, else the message of the InvalidPolicyConfig
\* (a ValueError) it raises.
PasswordPolicy_validate(policy, password) ==
    LET has(class) == \E i \in 1..Len(password) : password[i] \in class
    IN  IF Len(password) < policy.min_length
        THEN "Password must be at least min_length characters long."
        ELSE IF policy.require_upper /\ ~has(UpperChars)
        THEN "Password must contain at least one uppercase letter."
        ELSE IF policy.require_lower /\ ~has(LowerChars)
        THEN "Password must contain at least one lowercase letter."
        ELSE IF policy.require_digit /\ ~has(DigitChars)
        THEN "Password must contain at least one digit."
        ELSE IF policy.require_special
                /\ ~(\E i \in 1..Len(password) : is_special(password[i]))
        THEN "Password must contain at least one special character."
        ELSE "ok"

\* ---------------------------------------------------------------------------
\* app/security/hashes/argon2.py: the registered Argon2 implementation.  A
\* result is the hash and the exception raised; verify answers True, False or
\* the name of the exception that left it.
\* ---------------------------------------------------------------------------
\* the pepper is never appended
Argon2_with_pepper_Dropped(policy, password) == password

Argon2_with_pepper(policy, password) ==
    IF truthy(policy.pepper) THEN password \o policy.pepper ELSE password

\* hash() forgets the pepper, verify() applies it
Argon2_hash_Unpeppered(policy, password, salt) ==
    IF ~truthy(password) THEN [exc |-> "ValueError", hash |-> NoHash]
    ELSE [exc |-> "none", hash |-> PasswordHasher_hash(policy, password, salt)]

Argon2_hash(policy, password, salt) ==
    IF ~truthy(password) THEN [exc |-> "ValueError", hash |-> NoHash]
    ELSE [exc |-> "none",
          hash |-> PasswordHasher_hash(policy, Argon2_with_pepper(policy, password), salt)]

Argon2_verify(policy, stored_hash, password) ==
    IF falsy_hash(stored_hash) \/ ~truthy(password) THEN "False"
    ELSE LET r == PasswordHasher_verify(stored_hash, Argon2_with_pepper(policy, password))
         IN  IF r = "VerifyMismatchError" THEN "False"
             ELSE r   \* True, or InvalidHashError propagating to the caller

\* ---------------------------------------------------------------------------
\* app/models/user.py
\* ---------------------------------------------------------------------------
\* the canonical columns are not lowercased
User_NoFold(id, username, email) ==
    [id |-> id,
     username_canonical |-> username, username_display |-> username,
     email_canonical |-> email, email_display |-> email,
     password_hash |-> NoHash, about_me |-> None]

User(id, username, email) ==
    [id |-> id,
     username_canonical |-> lower(username), username_display |-> username,
     email_canonical |-> lower(email), email_display |-> email,
     password_hash |-> NoHash, about_me |-> None]

\* no guard against an empty password
set_password_Unguarded(cfg, user, password, salt) ==
    [user |-> [user EXCEPT !.password_hash = hash_password(cfg, password, salt)],
     exc |-> "none", msg |-> ""]

\* set_password: the row after the call, and the exception it raised if any.
set_password(cfg, user, password, salt) ==
    IF ~truthy(password)
    THEN [user |-> user, exc |-> "ValueError", msg |-> "Password cannot be empty"]
    ELSE [user |-> [user EXCEPT !.password_hash = hash_password(cfg, password, salt)],
          exc |-> "none", msg |-> ""]

check_password(cfg, user, password) ==
    verify_password(cfg, user.password_hash, password)

\* username_canonical declared without unique=True
unique_violation_EmailOnly(rows, row) ==
    \E o \in rows : o.id # row.id /\ o.email_canonical = row.email_canonical

\* The unique=True columns: would writing row violate a constraint?
unique_violation(rows, row) ==
    \E o \in rows : o.id # row.id
                    /\ (o.username_canonical = row.username_canonical
                        \/ o.email_canonical = row.email_canonical)

\* ---------------------------------------------------------------------------
\* app/services/user_service.py
\* ---------------------------------------------------------------------------
check_unique_value(value, values, original) ==
    LET canonical == lower(value)
    IN  IF original # None /\ canonical = lower(original) THEN TRUE
        ELSE canonical \notin values

is_username_unique(rows, username, original) ==
    check_unique_value(username, {r.username_canonical : r \in rows}, original)

\* the email query is skipped: every email is found free
is_email_unique_Always(rows, email, original) == TRUE

is_email_unique(rows, email, original) ==
    check_unique_value(email, {r.email_canonical : r \in rows}, original)

\* ---------------------------------------------------------------------------
\* app/helpers/validators.py: the form-level validator.  values are the rows'
\* values of the column it is given; the scalar query yields the matching
\* value, or None.  TRUE: it returns; FALSE: it raises ValidationError.
\* ---------------------------------------------------------------------------
validate_unique(data, values, original) ==
    LET canonical == lower(data)
        exists == IF canonical \in values THEN canonical ELSE None
    IN  IF truthy(original) /\ canonical = lower(original) THEN TRUE
        ELSE ~truthy(exists)

\* A request: the service call it makes (op) with its arguments, its position
\* (pc), and how the call ended (exc, msg).
Idle == [pc |-> "idle", op |-> "none", username |-> None, email |-> None,
         password |-> None, uid |-> 0, about_me |-> None, exc |-> "none", msg |-> ""]

raise(r, exc, msg) == [r EXCEPT !.pc = "done", !.exc = exc, !.msg = msg]

returned(r, uid) == [r EXCEPT !.pc = "done", !.uid = uid]

RegPcs == {"reg_u1", "reg_e1", "reg_u2", "reg_e2", "reg_commit"}

\* register_user, lines 106-107: the required-fields check touches no storage.
register_begin(p, username, email, password) ==
    /\ req[p].pc = "idle"
    /\ Cardinality(users) + Cardinality({q \in Procs : req[q].pc \in RegPcs}) < MaxUsers
    /\ req' = [req EXCEPT ![p] =
          LET call == [Idle EXCEPT !.op = "register_user", !.username = username,
                                   !.email = email, !.password = password]
          IN  IF ~truthy(username) \/ ~truthy(email) \/ ~truthy(password)
              THEN raise(call, "ValueError", "Username, email and password are required")
              ELSE [call EXCEPT !.pc = "reg_u1"]]
    /\ UNCHANGED <<users, nextId, config, argon, now, issued, tok, uq, registry, hsr, pol, pwpol, web, cal>>

\* lines 108-109: first query, on the username as submitted
register_check_username(p) ==
    /\ req[p].pc = "reg_u1"
    /\ req' = [req EXCEPT ![p] =
          IF ~is_username_unique(users, req[p].username, None)
          THEN raise(req[p], "ValueError", "Username already taken")
          ELSE [req[p] EXCEPT !.pc = "reg_e1"]]
    /\ UNCHANGED <<users, nextId, config, argon, now, issued, tok, uq, registry, hsr, pol, pwpol, web, cal>>

\* lines 110-114: second query; both values are then stripped, which the
\* later steps do where they use them (the request keeps them as submitted)
register_check_email(p) ==
    /\ req[p].pc = "reg_e1"
    /\ req' = [req EXCEPT ![p] =
          IF ~is_email_unique(users, req[p].email, None)
          THEN raise(req[p], "ValueError", "Email already taken")
          ELSE [req[p] EXCEPT !.pc = "reg_u2"]]
    /\ UNCHANGED <<users, nextId, config, argon, now, issued, tok, uq, registry, hsr, pol, pwpol, web, cal>>

\* lines 116-117
register_recheck_username(p) ==
    /\ req[p].pc = "reg_u2"
    /\ req' = [req EXCEPT ![p] =
          IF ~is_username_unique(users, strip(req[p].username), None)
          THEN raise(req[p], "ValueError", "Username already taken")
          ELSE [req[p] EXCEPT !.pc = "reg_e2"]]
    /\ UNCHANGED <<users, nextId, config, argon, now, issued, tok, uq, registry, hsr, pol, pwpol, web, cal>>

\* lines 118-119
register_recheck_email(p) ==
    /\ req[p].pc = "reg_e2"
    /\ req' = [req EXCEPT ![p] =
          IF ~is_email_unique(users, strip(req[p].email), None)
          THEN raise(req[p], "ValueError", "Email already taken")
          ELSE [req[p] EXCEPT !.pc = "reg_commit"]]
    /\ UNCHANGED <<users, nextId, config, argon, now, issued, tok, uq, registry, hsr, pol, pwpol, web, cal>>

\* lines 121-125: build the row, hash the password, INSERT and commit.  The
\* INSERT is refused by the unique constraints with IntegrityError, which
\* register_user does not catch.
register_commit(p) ==
    /\ req[p].pc = "reg_commit"
    /\ \E salt \in Salts :
         LET sp == set_password(config,
                                User(nextId, strip(req[p].username), strip(req[p].email)),
                                req[p].password, salt)
         IN  IF sp.exc # "none"
             THEN /\ req' = [req EXCEPT ![p] = raise(req[p], sp.exc, sp.msg)]
                  /\ UNCHANGED <<users, nextId>>
             ELSE IF unique_violation(users, sp.user)
             THEN /\ req' = [req EXCEPT ![p] = raise(req[p], "IntegrityError", "")]
                  /\ UNCHANGED <<users, nextId>>
             ELSE /\ users' = users \cup {sp.user}
                  /\ nextId' = nextId + 1
                  /\ req' = [req EXCEPT ![p] = returned(req[p], sp.user.id)]
    /\ UNCHANGED <<config, argon, now, issued, tok, uq, registry, hsr, pol, pwpol, web, cal>>


row_of(rows, uid) == CHOOSE r \in rows : r.id = uid

\* update_profile, lines 129-132: empty check and strip touch no storage.  The
\* request keeps the name as submitted; the later steps use it stripped.
update_begin(p, uid, username, about_me) ==
    /\ req[p].pc = "idle"
    /\ \E r \in users : r.id = uid
    /\ req' = [req EXCEPT ![p] =
          LET call == [Idle EXCEPT !.op = "update_profile", !.uid = uid,
                                   !.username = username, !.about_me = about_me]
          IN  IF ~truthy(username)
              THEN raise(call, "ValueError", "Username cannot be empty")
              ELSE [call EXCEPT !.pc = "upd_chk"]]
    /\ UNCHANGED <<users, nextId, config, argon, now, issued, tok, uq, registry, hsr, pol, pwpol, web, cal>>

\* lines 134-135: the query, exempting the user's own canonical name
update_check_username(p) ==
    /\ req[p].pc = "upd_chk"
    /\ req' = [req EXCEPT ![p] =
          IF ~is_username_unique(users, strip(req[p].username),
                                 row_of(users, req[p].uid).username_canonical)
          THEN raise(req[p], "ValueError", "Username already taken")
          ELSE [req[p] EXCEPT !.pc = "upd_commit"]]
    /\ UNCHANGED <<users, nextId, config, argon, now, issued, tok, uq, registry, hsr, pol, pwpol, web, cal>>

\* the canonical name is stored without lowercasing
update_commit_NoFold(p) ==
    /\ req[p].pc = "upd_commit"
    /\ LET old == row_of(users, req[p].uid)
           new == [old EXCEPT !.username_display = strip(req[p].username),
                              !.username_canonical = strip(req[p].username),
                              !.about_me = IF truthy(req[p].about_me)
                                           THEN req[p].about_me ELSE None]
       IN  IF unique_violation(users, new)
           THEN /\ req' = [req EXCEPT ![p] = raise(req[p], "IntegrityError", "")]
                /\ UNCHANGED users
           ELSE /\ users' = (users \ {old}) \cup {new}
                /\ req' = [req EXCEPT ![p] = returned(req[p], req[p].uid)]
    /\ UNCHANGED <<nextId, config, argon, now, issued, tok, uq, registry, hsr, pol, pwpol, web, cal>>

\* lines 137-140: assign the three fields, UPDATE and commit.  The UPDATE is
\* refused by the unique constraint with IntegrityError, which is not caught.
update_commit(p) ==
    /\ req[p].pc = "upd_commit"
    /\ LET old == row_of(users, req[p].uid)
           new == [old EXCEPT !.username_display = strip(req[p].username),
                              !.username_canonical = lower(strip(req[p].username)),
                              !.about_me = IF truthy(req[p].about_me)
                                           THEN req[p].about_me ELSE None]
       IN  IF unique_violation(users, new)
           THEN /\ req' = [req EXCEPT ![p] = raise(req[p], "IntegrityError", "")]
                /\ UNCHANGED users
           ELSE /\ users' = (users \ {old}) \cup {new}
                /\ req' = [req EXCEPT ![p] = returned(req[p], req[p].uid)]
    /\ UNCHANGED <<nextId, config, argon, now, issued, tok, uq, registry, hsr, pol, pwpol, web, cal>>

\* change_password, lines 143-146: set_password on the user, then commit.
UserService_change_password(p, uid, password) ==
    /\ req[p].pc = "idle"
    /\ \E r \in users : r.id = uid
    /\ \E salt \in Salts :
         LET call == [Idle EXCEPT !.op = "change_password", !.uid = uid,
                                   !.password = password]
             old == row_of(users, uid)
             sp == set_password(config, old, password, salt)
         IN  IF sp.exc # "none"
             THEN /\ req' = [req EXCEPT ![p] = raise(call, sp.exc, sp.msg)]
                  /\ UNCHANGED users
             ELSE /\ users' = (users \ {old}) \cup {sp.user}
                  /\ req' = [req EXCEPT ![p] = returned(call, uid)]
    /\ UNCHANGED <<nextId, config, argon, now, issued, tok, uq, registry, hsr, pol, pwpol, web, cal>>

\* reset_password, lines 148-151: the same two statements.
UserService_reset_password(p, uid, password) ==
    /\ req[p].pc = "idle"
    /\ \E r \in users : r.id = uid
    /\ \E salt \in Salts :
         LET call == [Idle EXCEPT !.op = "reset_password", !.uid = uid,
                                   !.password = password]
             old == row_of(users, uid)
             sp == set_password(config, old, password, salt)
         IN  IF sp.exc # "none"
             THEN /\ req' = [req EXCEPT ![p] = raise(call, sp.exc, sp.msg)]
                  /\ UNCHANGED users
             ELSE /\ users' = (users \ {old}) \cup {sp.user}
                  /\ req' = [req EXCEPT ![p] = returned(call, uid)]
    /\ UNCHANGED <<nextId, config, argon, now, issued, tok, uq, registry, hsr, pol, pwpol, web, cal>>

\* ---------------------------------------------------------------------------
\* app/routes.py: what the caller of register / edit_profile sees.  Only
\* ValueError is caught and flashed; anything else reaches the 500 handler.
\* ---------------------------------------------------------------------------
route_response(r) ==
    IF r.exc = "none" THEN "redirect"
    ELSE IF r.exc = "ValueError" THEN r.msg
    ELSE "500"

\* The response is delivered and the request ends.
respond(p) ==
    /\ req[p].pc = "done"
    /\ req' = [req EXCEPT ![p] = Idle]
    /\ UNCHANGED <<users, nextId, config, argon, now, issued, tok, uq, registry, hsr, pol, pwpol, web, cal>>

\* ---------------------------------------------------------------------------
\* app/helpers/tokens.py: stateless reset tokens.  A token is what jwt.encode
\* signed: the payload and the key that signed it; Malformed is any text that
\* is not a JWT.  Results are records: some = FALSE is Python's None, exc
\* names an exception that left the function.
\* ---------------------------------------------------------------------------
MaxTime == 3
MaxSecret == 2
MaxTokens == 2

Malformed == [kind |-> "malformed", reset_password |-> 0, exp |-> 0, key |-> 0]

jwt_encode(payload, key) ==
    [kind |-> "jwt", reset_password |-> payload.reset_password,
     exp |-> payload.exp, key |-> key]

\* jwt.decode: signature first, then the exp claim (expired when exp <= now).
jwt_decode(token, key, t) ==
    IF token.kind # "jwt" THEN [exc |-> "DecodeError", payload |-> Malformed]
    ELSE IF token.key # key THEN [exc |-> "InvalidSignatureError", payload |-> Malformed]
    ELSE IF token.exp <= t THEN [exc |-> "ExpiredSignatureError", payload |-> Malformed]
    ELSE [exc |-> "none", payload |-> token]

Absent == [some |-> FALSE, id |-> 0, exc |-> "none"]
Some(id) == [some |-> TRUE, id |-> id, exc |-> "none"]
Raised(exc) == [some |-> FALSE, id |-> 0, exc |-> exc]

generate_reset_token(cfg, t, user_id, expires_in) ==
    jwt_encode([reset_password |-> user_id, exp |-> t + expires_in], cfg.SECRET_KEY)

\* the except clause is missing: the decoding exception leaves the function
verify_reset_token_NoCatch(cfg, t, token) ==
    LET d == jwt_decode(token, cfg.SECRET_KEY, t)
    IN  IF d.exc # "none" THEN Raised(d.exc)
        ELSE Some(d.payload.reset_password)

\* the signature is not checked against the current secret
verify_reset_token_NoSig(cfg, t, token) ==
    LET d == jwt_decode(token, token.key, t)
    IN  IF d.exc # "none" THEN Absent
        ELSE Some(d.payload.reset_password)

verify_reset_token(cfg, t, token) ==
    LET d == jwt_decode(token, cfg.SECRET_KEY, t)
    IN  IF d.exc # "none" THEN Absent      \* except Exception: return None
        ELSE Some(d.payload.reset_password)

\* Tokens a client may present that this server never issued: signed with a
\* key the server never uses (0), or not a JWT at all.
Foreign ==
    { jwt_encode([reset_password |-> 1, exp |-> e], 0) : e \in {0, MaxTime + 1} }
        \cup {Malformed}

Ttls == {1, 2}

IdleTok == [called |-> FALSE, token |-> Malformed, reset |-> FALSE, result |-> Absent]

\* send_password_reset_email -> User.get_reset_password_token
issue_token(uid, ttl) ==
    /\ Cardinality(issued) < MaxTokens
    /\ \E r \in users : r.id = uid
    /\ issued' = issued \cup {generate_reset_token(config, now, uid, ttl)}
    /\ tok' = IdleTok
    /\ UNCHANGED <<users, nextId, req, config, argon, now, uq, registry, hsr, pol, pwpol, web, cal>>

\* A caller verifies a token it holds.
verify_token(token) ==
    /\ tok' = [called |-> TRUE, token |-> token, reset |-> FALSE,
                result |-> verify_reset_token(config, now, token)]
    /\ UNCHANGED <<users, nextId, req, config, argon, now, issued, uq, registry, hsr, pol, pwpol, web, cal>>

\* routes.reset_password: verify the token, load the user, set the password.
reset_password(token, password, salt) ==
    LET id == verify_reset_token(config, now, token)
    IN  /\ id.some
        /\ \E r \in users : r.id = id.id
        /\ LET sp == set_password(config, row_of(users, id.id), password, salt)
           IN  /\ sp.exc = "none"
               /\ users' = (users \ {row_of(users, id.id)}) \cup {sp.user}
        /\ tok' = [called |-> TRUE, token |-> token, reset |-> TRUE, result |-> id]
        /\ UNCHANGED <<nextId, req, config, argon, now, issued, uq, registry, hsr, pol, pwpol, web, cal>>

tick ==
    /\ now < MaxTime
    /\ now' = now + 1
    /\ tok' = IdleTok
    /\ UNCHANGED <<users, nextId, req, config, argon, issued, uq, registry, hsr, pol, pwpol, web, cal>>

\* The process is restarted with a new SECRET_KEY, one never used before.
rotate_secret ==
    /\ config.SECRET_KEY < MaxSecret
    /\ config' = [config EXCEPT !.SECRET_KEY = @ + 1]
    /\ tok' = IdleTok
    /\ UNCHANGED <<users, nextId, req, argon, now, issued, uq, registry, hsr, pol, pwpol, web, cal>>


\* ---------------------------------------------------------------------------
\* Specification of the identity flows
\* ---------------------------------------------------------------------------
DefaultConfig ==
    [SECRET_KEY |-> 1, ARGON2_PEPPER |-> <<>>,
     ARGON2_TIME_COST |-> 8, ARGON2_MEMORY_COST |-> 131072,
     ARGON2_PARALLELISM |-> 2, ARGON2_HASH_LENGTH |-> 16, ARGON2_SALT_LENGTH |-> 16,
     HASH_VARIANT |-> None,
     PASSWORD_MIN_LENGTH |-> 8,
     PASSWORD_REQUIRE_UPPER |-> TRUE, PASSWORD_REQUIRE_LOWER |-> TRUE,
     PASSWORD_REQUIRE_DIGIT |-> TRUE, PASSWORD_REQUIRE_SPECIAL |-> TRUE]

\* No hash(), verify() or set_password() call has been made yet.
NoCall == [impl |-> "none", pepper |-> None, password |-> None,
           before |-> NoHash, stored |-> NoHash, exc |-> "none", result |-> "none"]
IdleArgon == [h |-> NoCall, v |-> NoCall]
NoPolicy == [time_cost |-> 0, memory_cost |-> 0, parallelism |-> 0,
             hash_length |-> 0, salt_length |-> 0, pepper |-> None]
NoHasher == [cls |-> "none", policy |-> NoPolicy, variant |-> None]
NoHasherCall == [op |-> "none", name |-> None, policy |-> NoPolicy, password |-> None,
                 stored |-> NoHash, salt |-> 0, exc |-> "none", cls |-> "none",
                 hash |-> NoHash, answer |-> "none", before |-> NoHasher]
IdleHsr == [phase |-> "startup", log |-> <<>>, hasher |-> NoHasher, call |-> NoHasherCall]
IdlePol == [called |-> FALSE, self |-> NoPolicy, exc |-> "none", msg |-> "",
            warnings |-> {}, infos |-> {}, obj |-> NoPolicy]
NoPasswordPolicy == [min_length |-> 0, require_upper |-> FALSE, require_lower |-> FALSE,
                     require_digit |-> FALSE, require_special |-> FALSE]
IdlePwPol == [phase |-> "idle", self |-> NoPasswordPolicy, exc |-> "none",
           warnings |-> {}, password |-> None, result |-> "none"]
NoView == [view |-> "none", before |-> 0, username |-> None, password |-> None,
           email |-> None, user |-> 0, status |-> "none", target |-> "",
           flash |-> "", mails |-> {}, called |-> "none"]
IdleWeb == [session |-> 0, followers |-> {}, outbox |-> {}, last |-> NoView]
IdleCal == [phase |-> "idle", alg |-> "none", param |-> 0, lat |-> {},
            tried |-> <<>>, reported |-> 0]
IdleUq == [called |-> FALSE, column |-> "", data |-> None, original |-> None, valid |-> FALSE]

Init ==
    /\ users = {}
    /\ nextId = 1
    /\ req = [p \in Procs |-> Idle]
    /\ config = DefaultConfig
    /\ argon = IdleArgon
    /\ now = 0
    /\ issued = {}
    /\ tok = IdleTok
    /\ uq = IdleUq
    /\ registry = {}
    /\ hsr = IdleHsr
    /\ pwpol = IdlePwPol
    /\ web = IdleWeb
    /\ cal = IdleCal
    /\ pol = IdlePol

\* One request at a time: any sequence of operations, on every input.
Next ==
    \/ \E u \in NameInputs, e \in EmailInputs, w \in ServicePasswords :
          register_begin(1, u, e, w)
    \/ register_check_username(1)
    \/ register_check_email(1)
    \/ register_recheck_username(1)
    \/ register_recheck_email(1)
    \/ register_commit(1)
    \/ \E uid \in 1..MaxUsers, u \in NameInputs, a \in AboutInputs :
          update_begin(1, uid, u, a)
    \/ update_check_username(1)
    \/ update_commit(1)
    \/ \E uid \in 1..MaxUsers, w \in ServicePasswords :
          UserService_change_password(1, uid, w)
    \/ \E uid \in 1..MaxUsers, w \in ServicePasswords :
          UserService_reset_password(1, uid, w)
    \/ respond(1)

Spec == Init /\ [][Next]_vars

\* Two requests interleaving at every storage round-trip.
ConcNames == { <<"a">>, <<"A">>, <<"b">>, <<" ", "b">> }
ConcEmails == { <<"x">>, <<"X">>, <<"y">> }
ConcPasswords == { <<"p">> }
ConcAbout == { <<"h">> }

NextConc ==
    \/ \E p \in Procs, u \in ConcNames, e \in ConcEmails, w \in ConcPasswords :
          register_begin(p, u, e, w)
    \/ \E p \in Procs : register_check_username(p)
    \/ \E p \in Procs : register_check_email(p)
    \/ \E p \in Procs : register_recheck_username(p)
    \/ \E p \in Procs : register_recheck_email(p)
    \/ \E p \in Procs : register_commit(p)
    \/ \E p \in Procs, uid \in 1..MaxUsers, u \in ConcNames, a \in ConcAbout :
          update_begin(p, uid, u, a)
    \/ \E p \in Procs : update_check_username(p)
    \/ \E p \in Procs : update_commit(p)
    \/ \E p \in Procs : respond(p)

SpecConc == Init /\ [][NextConc]_vars

\* ---------------------------------------------------------------------------
\* Race of two registrations whose usernames differ only by letter case, both
\* already past the required-fields check, on an empty table.
\* ---------------------------------------------------------------------------
InitRace ==
    /\ users = {}
    /\ nextId = 1
    /\ \E u1, u2 \in ConcNames, e1, e2 \in ConcEmails :
          /\ u1 # u2
          /\ lower(u1) = lower(u2)
          /\ req = [p \in Procs |->
                      [Idle EXCEPT !.pc = "reg_u1", !.op = "register_user",
                                   !.username = IF p = 1 THEN u1 ELSE u2,
                                   !.email = IF p = 1 THEN e1 ELSE e2,
                                   !.password = <<"p">>]]
    /\ config = DefaultConfig
    /\ argon = IdleArgon
    /\ now = 0
    /\ issued = {}
    /\ tok = IdleTok
    /\ uq = IdleUq
    /\ registry = {}
    /\ hsr = IdleHsr
    /\ pwpol = IdlePwPol
    /\ web = IdleWeb
    /\ cal = IdleCal
    /\ pol = IdlePol

NextRace ==
    \/ \E p \in Procs : register_check_username(p)
    \/ \E p \in Procs : register_check_email(p)
    \/ \E p \in Procs : register_recheck_username(p)
    \/ \E p \in Procs : register_recheck_email(p)
    \/ \E p \in Procs : register_commit(p)

SpecRace == InitRace /\ [][NextRace]_vars

\* C1: no two persisted identities share a canonical username or a canonical
\* email, whatever register_user and update_profile requests ran or were
\* rejected, in any interleaving.
C1_UniqueCanonical ==
    \A a, b \in users :
        a # b => /\ a.username_canonical # b.username_canonical
                 /\ a.email_canonical # b.email_canonical

\* Two identities are persisted and a request has just been refused.
C1_Witness ==
    /\ Cardinality(users) = 2
    /\ \E p \in Procs : req[p].pc = "done" /\ req[p].exc # "none"

\* C2: when both racing registrations have finished, exactly one identity is
\* persisted and exactly one attempt was rejected.
C2_RaceOneWinner ==
    (\A p \in Procs : req[p].pc = "done") =>
        /\ Cardinality(users) = 1
        /\ Cardinality({p \in Procs : req[p].exc = "none"}) = 1
        /\ Cardinality({p \in Procs : req[p].exc # "none"}) = 1

\* Both finished, and the loser passed every pre-check and was refused by the
\* storage constraint at commit.
C2_Witness ==
    /\ \A p \in Procs : req[p].pc = "done"
    /\ \E p \in Procs : req[p].exc = "IntegrityError"

\* C3: a request refused at commit by the storage constraint ends in the same
\* caller-visible outcome as a pre-check failure; no other error outcome is
\* reachable.
C3_RefusalLooksLikePrecheck ==
    \A p \in Procs :
        req[p].pc = "done" =>
            route_response(req[p]) \in
                {"redirect", "Username already taken", "Email already taken"}

Registered(id, username, email, password) ==
    set_password(DefaultConfig, User(id, username, email), password, 1).user

InitTokens ==
    /\ users = { Registered(1, <<"a">>, <<"x">>, <<"p">>),
                 Registered(2, <<"b">>, <<"y">>, <<"p">>) }
    /\ nextId = 3
    /\ req = [p \in Procs |-> Idle]
    /\ config = DefaultConfig
    /\ argon = IdleArgon
    /\ now = 0
    /\ issued = {}
    /\ tok = IdleTok
    /\ uq = IdleUq
    /\ registry = {}
    /\ hsr = IdleHsr
    /\ pwpol = IdlePwPol
    /\ web = IdleWeb
    /\ cal = IdleCal
    /\ pol = IdlePol

NextTokens ==
    \/ \E uid \in 1..MaxUsers, ttl \in Ttls : issue_token(uid, ttl)
    \/ \E t \in issued \cup Foreign : verify_token(t)
    \/ \E t \in issued : reset_password(t, <<"q">>, 1)
    \/ tick
    \/ rotate_secret

SpecTokens == InitTokens /\ [][NextTokens]_vars

\* C4: verify_reset_token returns the embedded user id exactly when the token
\* is a JWT signed with the current secret whose expiry is strictly after the
\* time of the call; in every other case it returns None, and it never raises.
C4_VerifyIffSignedAndFresh ==
    tok.called =>
        tok.result =
            IF /\ tok.token.kind = "jwt"
               /\ tok.token.key = config.SECRET_KEY
               /\ tok.token.exp > now
            THEN Some(tok.token.reset_password)
            ELSE Absent

\* An issued token, still signed with the current secret, verified at the very
\* second of its expiry: absent.
C4_Witness ==
    /\ tok.called
    /\ tok.token \in issued
    /\ tok.token.key = config.SECRET_KEY
    /\ tok.token.exp = now
    /\ tok.result = Absent

\* C5: no server-side state: while the secret is unchanged and the expiry has
\* not passed, an issued token keeps verifying to its user id across every
\* step (a reset completed with it, further tokens issued); after a step that
\* rotates the secret every issued token verifies to None; a token that has
\* expired verifies to None ever after.
C5_Stateless ==
    [][\A t \in issued :
          /\ (/\ t.key = config.SECRET_KEY
              /\ config'.SECRET_KEY = config.SECRET_KEY
              /\ now' < t.exp)
                => verify_reset_token(config', now', t) = Some(t.reset_password)
          /\ config'.SECRET_KEY # config.SECRET_KEY
                => verify_reset_token(config', now', t) = Absent
          /\ t.exp <= now
                => verify_reset_token(config', now', t) = Absent]_vars

\* A password reset was completed with a token, and that token still verifies.
C5_Witness ==
    /\ tok.reset
    /\ Cardinality(issued) > 1
    /\ verify_reset_token(config, now, tok.token) = Some(tok.token.reset_password)

\* ---------------------------------------------------------------------------
\* Specification of hashing: every hash / verify call on every input, through
\* the Argon2 class and through the helpers under the current configuration.
\* ---------------------------------------------------------------------------
CostParams == { [time_cost |-> 1, memory_cost |-> 65536],
                [time_cost |-> 6, memory_cost |-> 102400] }
PolicyPeppers == { None, <<>>, <<"k">>, <<"m">> }
ConfigPeppers == { <<>>, <<"k">> }

\* Argon2Policy's defaults
DefaultCost == [time_cost |-> 6, memory_cost |-> 102400]

Argon2Policy(cost, pepper) ==
    [time_cost |-> cost.time_cost, memory_cost |-> cost.memory_cost, pepper |-> pepper]

\* Argon2(policy).hash(password)
argon2_hash_call(policy, password, salt) ==
    /\ LET r == Argon2_hash(policy, password, salt)
       IN  argon' = [h |-> [impl |-> "Argon2", pepper |-> policy.pepper,
                                 password |-> password, before |-> NoHash,
                                 stored |-> r.hash, exc |-> r.exc, result |-> "none"],
                     v |-> NoCall]
    /\ UNCHANGED <<users, nextId, req, config, now, issued, tok, uq, registry, hsr, pol, pwpol, web, cal>>

\* Argon2(policy).verify(stored_hash, password)
argon2_verify_call(policy, stored_hash, password) ==
    /\ argon' = [argon EXCEPT !.v =
          [impl |-> "Argon2", pepper |-> policy.pepper, password |-> password,
           before |-> NoHash, stored |-> stored_hash, exc |-> "none",
           result |-> Argon2_verify(policy, stored_hash, password)]]
    /\ UNCHANGED <<users, nextId, req, config, now, issued, tok, uq, registry, hsr, pol, pwpol, web, cal>>

\* hash_password(password) under the current configuration
hash_password_call(password, salt) ==
    /\ password # None
    /\ argon' = [h |-> [impl |-> "helpers", pepper |-> config.ARGON2_PEPPER,
                         password |-> password, before |-> NoHash,
                         stored |-> hash_password(config, password, salt),
                         exc |-> "none", result |-> "none"],
                 v |-> NoCall]
    /\ UNCHANGED <<users, nextId, req, config, now, issued, tok, uq, registry, hsr, pol, pwpol, web, cal>>

\* verify_password(stored_hash, password) under the current configuration
verify_password_call(stored_hash, password) ==
    /\ argon' = [argon EXCEPT !.v =
          [impl |-> "helpers", pepper |-> config.ARGON2_PEPPER, password |-> password,
           before |-> NoHash, stored |-> stored_hash, exc |-> "none",
           result |-> verify_password(config, stored_hash, password)]]
    /\ UNCHANGED <<users, nextId, req, config, now, issued, tok, uq, registry, hsr, pol, pwpol, web, cal>>

\* user.set_password(password) on a persisted identity, then commit
set_password_call(uid, password, salt) ==
    /\ \E r \in users : r.id = uid
    /\ LET old == row_of(users, uid)
           sp == set_password(config, old, password, salt)
       IN  /\ users' = (users \ {old}) \cup {sp.user}
           /\ argon' = [h |-> [impl |-> "User", pepper |-> config.ARGON2_PEPPER,
                                password |-> password, before |-> old.password_hash,
                                stored |-> sp.user.password_hash, exc |-> sp.exc,
                                result |-> "none"],
                        v |-> NoCall]
    /\ UNCHANGED <<nextId, req, config, now, issued, tok, uq, registry, hsr, pol, pwpol, web, cal>>

\* The process is restarted with another ARGON2_PEPPER.
set_pepper(pepper) ==
    /\ pepper # config.ARGON2_PEPPER
    /\ config' = [config EXCEPT !.ARGON2_PEPPER = pepper]
    /\ UNCHANGED <<users, nextId, req, argon, now, issued, tok, uq, registry, hsr, pol, pwpol, web, cal>>

InitHash ==
    /\ users = { Registered(1, <<"a">>, <<"x">>, <<"p">>) }
    /\ nextId = 2
    /\ req = [p \in Procs |-> Idle]
    /\ config = DefaultConfig
    /\ argon = IdleArgon
    /\ now = 0
    /\ issued = {}
    /\ tok = IdleTok
    /\ uq = IdleUq
    /\ registry = {}
    /\ hsr = IdleHsr
    /\ pwpol = IdlePwPol
    /\ web = IdleWeb
    /\ cal = IdleCal
    /\ pol = IdlePol

\* What a caller may hand to verify as the stored hash: nothing, an empty
\* text, a text that is no Argon2 hash, or the hash produced last.
Presentable == {NoHash, EmptyHash, MalformedHash, argon.h.stored}

NextHash ==
    \/ \E c \in CostParams, k \in PolicyPeppers, w \in PasswordInputs, salt \in Salts :
          argon2_hash_call(Argon2Policy(c, k), w, salt)
    \/ \E k \in PolicyPeppers, st \in Presentable, w \in PasswordInputs :
          argon2_verify_call(Argon2Policy(DefaultCost, k), st, w)
    \/ \E w \in PasswordInputs, salt \in Salts : hash_password_call(w, salt)
    \/ \E st \in Presentable, w \in PasswordInputs : verify_password_call(st, w)
    \/ \E w \in PasswordInputs \ {<<"p">>}, salt \in Salts : set_password_call(1, w, salt)
    \/ \E k \in ConfigPeppers : set_pepper(k)

SpecHash == InitHash /\ [][NextHash]_vars

\* The pepper in effect: None and the empty text both mean no pepper.
effective_pepper(k) == IF truthy(k) THEN k ELSE <<>>

\* hash (h) and verify (v) were made by the same hasher
SameHasher ==
    /\ (argon.v.impl = "Argon2") = (argon.h.impl = "Argon2")
    /\ argon.v.pepper = argon.h.pepper

\* verify was called on the hash that the last hash call of a non-empty
\* password returned
VerifiedLastHash ==
    /\ argon.v.impl # "none"
    /\ argon.h.exc = "none"
    /\ truthy(argon.h.password)
    /\ argon.v.stored = argon.h.stored

\* C6: for every non-empty password p and every cost policy, the hasher that
\* produced hash(p) verifies it against p with true, and against every other
\* password q with false.
C6_HashThenVerify ==
    (VerifiedLastHash /\ SameHasher) =>
        argon.v.result = IF argon.v.password = argon.h.password THEN "True" ELSE "False"

\* Argon2 under the non-default cost policy and a pepper: the same password
\* was just verified against its hash.
C6_Witness ==
    /\ VerifiedLastHash /\ SameHasher
    /\ argon.h.impl = "Argon2"
    /\ argon.h.stored.time_cost = 1
    /\ argon.h.pepper = <<"k">>
    /\ argon.v.password = argon.h.password
    /\ argon.v.result = "True"

\* C7: verify answers false, and never raises, on every input that is not a
\* match: wrong password, empty or absent stored hash, empty or absent
\* password, malformed stored hash.
C7_VerifyNeverRaises ==
    argon.v.impl # "none" =>
        /\ argon.v.result \in {"True", "False"}
        /\ (\/ falsy_hash(argon.v.stored)
            \/ argon.v.stored.kind = "malformed"
            \/ ~truthy(argon.v.password)) => argon.v.result = "False"

\* C8: hash of an empty password fails with the empty-input error and returns
\* no hash; through set_password the identity keeps the hash it had.
C8_EmptyPasswordRejected ==
    ~truthy(argon.h.password) =>
        /\ argon.h.impl = "Argon2" =>
              /\ argon.h.exc = "ValueError"
              /\ argon.h.stored = NoHash
        /\ argon.h.impl = "User" =>
              /\ argon.h.exc = "ValueError"
              /\ argon.h.stored = argon.h.before
              /\ \A r \in users : r.password_hash = argon.h.before

\* set_password("") was called on an identity that has a hash.
C8_Witness ==
    /\ argon.h.impl = "User"
    /\ argon.h.password = <<>>
    /\ argon.h.before.kind = "argon2"
    /\ argon.h.exc = "ValueError"

\* C9: hash gives the primitive the password with the pepper appended, and so
\* does verify: the hash of p under pepper P verifies p exactly when verify
\* runs under the same pepper P; under another pepper or none it answers
\* false.  The stored hash carries no pepper: what verify needs comes from
\* its own configuration.
C9_PepperBothSides ==
    /\ (argon.h.impl # "none" /\ argon.h.impl # "User" /\ argon.h.exc = "none") =>
          argon.h.stored.digest = argon.h.password \o effective_pepper(argon.h.pepper)
    /\ (VerifiedLastHash /\ argon.v.password = argon.h.password) =>
          argon.v.result =
              IF effective_pepper(argon.v.pepper) = effective_pepper(argon.h.pepper)
              THEN "True" ELSE "False"

\* The right password against a hash made under pepper k, verified under m.
C9_Witness ==
    /\ VerifiedLastHash
    /\ argon.v.password = argon.h.password
    /\ argon.h.pepper = <<"k">>
    /\ argon.v.pepper = <<"m">>
    /\ argon.v.result = "False"

\* ---------------------------------------------------------------------------
\* Specification of the uniqueness validator: every candidate and original,
\* against populations that registrations leave behind (a whitespace-only
\* username is stored with an empty canonical name).
\* ---------------------------------------------------------------------------
Populations ==
    { {},
      { Registered(1, <<"b">>, <<"y">>, <<"p">>) },
      { Registered(1, <<"A">>, <<"X">>, <<"p">>), Registered(2, <<"b">>, <<"y">>, <<"p">>) },
      { Registered(1, <<>>, <<"x">>, <<"p">>), Registered(2, <<"b">>, <<"y">>, <<"p">>) } }

column(rows, name) ==
    IF name = "username_canonical" THEN {r.username_canonical : r \in rows}
    ELSE {r.email_canonical : r \in rows}

\* validate_unique(field, User.<column>, original)
validate_unique_call(name, data, original) ==
    /\ uq' = [called |-> TRUE, column |-> name, data |-> data, original |-> original,
              valid |-> validate_unique(data, column(users, name), original)]
    /\ UNCHANGED <<users, nextId, req, config, argon, now, issued, tok, registry, hsr, pol, pwpol, web, cal>>

InitUniq ==
    /\ users \in Populations
    /\ nextId = Cardinality(users) + 1
    /\ req = [p \in Procs |-> Idle]
    /\ config = DefaultConfig
    /\ argon = IdleArgon
    /\ now = 0
    /\ issued = {}
    /\ tok = IdleTok
    /\ uq = IdleUq
    /\ registry = {}
    /\ hsr = IdleHsr
    /\ pwpol = IdlePwPol
    /\ web = IdleWeb
    /\ cal = IdleCal
    /\ pol = IdlePol

NextUniq ==
    \E name \in {"username_canonical", "email_canonical"},
       data \in (NameInputs \cup EmailInputs) \ {None},
       original \in NameInputs \cup EmailInputs :
          validate_unique_call(name, data, original)

SpecUniq == InitUniq /\ [][NextUniq]_vars

\* C10: the candidate is accepted when an original is supplied and equals it
\* ignoring case; otherwise it is accepted exactly when its lowercase form is
\* not among the existing canonical values.
C10_IsUnique ==
    uq.called =>
        uq.valid =
            IF uq.original # None /\ lower(uq.data) = lower(uq.original) THEN TRUE
            ELSE lower(uq.data) \notin column(users, uq.column)

\* ---------------------------------------------------------------------------
\* Contracts of the service calls, one request at a time (Spec)
\* ---------------------------------------------------------------------------
\* The call of request 1 ends in this step.
ends(op) == req[1].pc # "done" /\ req'[1].pc = "done" /\ req'[1].op = op

usernames_of(rows) == { r.username_canonical : r \in rows }
emails_of(rows) == { r.email_canonical : r \in rows }

\* C11: register_user on a username whose canonical (lowercase) form is
\* persisted raises "Username already taken", on a free username and an email
\* whose canonical form is persisted raises "Email already taken", on a
\* missing username, email or password raises the required-fields error; each
\* time the table is unchanged, and no step before the end of the call writes
\* to it.
C11_RegisterRefusals ==
    [][/\ req[1].pc \in RegPcs /\ req'[1].pc \in RegPcs => users' = users
       /\ ends("register_user") =>
            LET r == req'[1]
                missing == ~truthy(r.username) \/ ~truthy(r.email) \/ ~truthy(r.password)
                taken_u == lower(r.username) \in usernames_of(users)
                taken_e == lower(r.email) \in emails_of(users)
            IN  /\ missing =>
                      /\ r.exc = "ValueError"
                      /\ r.msg = "Username, email and password are required"
                      /\ users' = users
                /\ ~missing /\ taken_u =>
                      /\ r.exc = "ValueError"
                      /\ r.msg = "Username already taken"
                      /\ users' = users
                /\ ~missing /\ ~taken_u /\ taken_e =>
                      /\ r.exc = "ValueError"
                      /\ r.msg = "Email already taken"
                      /\ users' = users]_vars

\* A registration was refused for its email, whose canonical form differs
\* from the email as submitted.
C11_Witness ==
    /\ req[1].pc = "done"
    /\ req[1].op = "register_user"
    /\ req[1].msg = "Email already taken"
    /\ req[1].email # lower(req[1].email)
    /\ lower(req[1].email) \in emails_of(users)
\* C12: register_user, change_password and reset_password reject a password
\* that fails the configured strength policy: a call made with such a
\* password never returns normally.
C12_WeakPasswordRejected ==
    \A p \in Procs :
        (/\ req[p].pc = "done"
         /\ req[p].op \in {"register_user", "change_password", "reset_password"}
         /\ truthy(req[p].password)
         /\ PasswordPolicy_validate(get_password_policy(config), req[p].password) # "ok")
            => req[p].exc # "none"
\* C13 as stated: update_profile on the user's own current name (compared
\* case-insensitively) succeeds; on a name whose lowercase form belongs to
\* another identity it raises "Username already taken" and leaves the row
\* unchanged; otherwise it stores the name exactly as submitted as display
\* name and its lowercase form as canonical name.
C13_UpdateStoresSubmitted ==
    [][(ends("update_profile") /\ truthy(req'[1].username)) =>
          LET r == req'[1]
              old == row_of(users, r.uid)
              new == row_of(users', r.uid)
              own == lower(r.username) = lower(old.username_display)
              other == \E o \in users : /\ o.id # r.uid
                                        /\ o.username_canonical = lower(r.username)
          IN  /\ own => r.exc = "none"
              /\ ~own /\ other =>
                    /\ r.exc = "ValueError"
                    /\ r.msg = "Username already taken"
                    /\ new = old
              /\ ~own /\ ~other =>
                    /\ r.exc = "none"
                    /\ new.username_display = r.username
                    /\ new.username_canonical = lower(r.username)]_vars

\* C13, amended: the same three cases, decided on and storing the submitted
\* name with its leading and trailing whitespace removed.
C13_UpdateStoresStripped ==
    [][(ends("update_profile") /\ truthy(req'[1].username)) =>
          LET r == req'[1]
              name == strip(r.username)
              old == row_of(users, r.uid)
              new == row_of(users', r.uid)
              own == lower(name) = lower(old.username_display)
              other == \E o \in users : /\ o.id # r.uid
                                        /\ o.username_canonical = lower(name)
          IN  /\ own =>
                    /\ r.exc = "none"
                    /\ new.username_display = name
                    /\ new.username_canonical = lower(name)
              /\ ~own /\ other =>
                    /\ r.exc = "ValueError"
                    /\ r.msg = "Username already taken"
                    /\ new = old
              /\ ~own /\ ~other =>
                    /\ r.exc = "none"
                    /\ new.username_display = name
                    /\ new.username_canonical = lower(name)
              /\ \A o \in users : o.id # r.uid => o \in users']_vars

\* A name submitted with surrounding whitespace and in another letter case
\* than any stored one was accepted while a second identity exists.
C13_Witness ==
    /\ req[1].pc = "done"
    /\ req[1].op = "update_profile"
    /\ req[1].exc = "none"
    /\ req[1].username # strip(req[1].username)
    /\ Cardinality(users) = 2
\* C14: when change_password(user, p) or reset_password(user, p) returns,
\* check_password(p) is true for that user, check_password of every other
\* password (the previous one included) is false, and every other identity's
\* row is as it was.
C14_PasswordReplaced ==
    [][((ends("change_password") \/ ends("reset_password")) /\ req'[1].exc = "none") =>
          LET r == req'[1]
              new == row_of(users', r.uid)
          IN  /\ check_password(config', new, r.password) = "True"
              /\ \A w \in ServicePasswords \ {r.password} :
                     check_password(config', new, w) = "False"
              /\ \A o \in users : o.id # r.uid => o \in users']_vars

\* A reset returned for one of two identities, whose passwords now differ.
C14_Witness ==
    /\ req[1].pc = "done"
    /\ req[1].op = "reset_password"
    /\ req[1].exc = "none"
    /\ \E u, o \in users :
          /\ u.id = req[1].uid
          /\ o.id # u.id
          /\ check_password(config, u, req[1].password) = "True"
          /\ check_password(config, o, req[1].password) = "False"
\* ---------------------------------------------------------------------------
\* app/security/policies/argon2_policy.py: the cost policy.  Construction runs
\* __post_init__ on the submitted fields: it raises InvalidPolicyConfig or
\* returns, and logs warnings and informational records on the way.
\* ---------------------------------------------------------------------------
ARGON2_MIN_TIME_COST == 1
ARGON2_MAX_TIME_COST == 20
ARGON2_MIN_MEMORY == 65536
ARGON2_WARN_MEMORY == 131072
ARGON2_MAX_MEMORY == 1048576
ARGON2_MIN_PARALLELISM == 1
ARGON2_MAX_PARALLELISM == 64
ARGON2_MIN_HASH_LENGTH == 16
ARGON2_WARN_HASH_LENGTH == 32
ARGON2_MIN_SALT_LENGTH == 16
ARGON2_MIN_PEPPER_LENGTH == 16

\* A pepper that is not None and not a str (the tests pass the integer 1234).
NotText == <<"<int>">>

isinstance_str(x) == x # None /\ x # NotText

\* the hash length is checked against the soft baseline, not the hard floor
Argon2Policy_post_init_SoftFloor(self) ==
    [exc |-> IF self.time_cost < ARGON2_MIN_TIME_COST
                \/ self.parallelism < ARGON2_MIN_PARALLELISM
                \/ self.hash_length < ARGON2_WARN_HASH_LENGTH
                \/ self.salt_length < ARGON2_MIN_SALT_LENGTH
             THEN "InvalidPolicyConfig" ELSE "none",
     msg |-> "", warnings |-> {}, infos |-> {}]

\* the upper-bound checks are lost
Argon2Policy_post_init_NoUpper(self) ==
    [exc |-> IF self.time_cost < ARGON2_MIN_TIME_COST
                \/ self.parallelism < ARGON2_MIN_PARALLELISM
                \/ self.hash_length < ARGON2_MIN_HASH_LENGTH
                \/ self.salt_length < ARGON2_MIN_SALT_LENGTH
             THEN "InvalidPolicyConfig" ELSE "none",
     msg |-> "",
     warnings |-> (IF self.memory_cost < ARGON2_WARN_MEMORY
                   THEN {"memory_cost below OWASP recommended baseline"} ELSE {})
                  \cup (IF self.hash_length < ARGON2_WARN_HASH_LENGTH
                        THEN {"hash_length below OWASP recommended baseline"} ELSE {}),
     infos |-> {}]

\* a pepper shorter than 16 characters is rejected instead of flagged
Argon2Policy_post_init_ShortPepperFatal(self) ==
    IF \/ self.time_cost < ARGON2_MIN_TIME_COST
       \/ self.parallelism < ARGON2_MIN_PARALLELISM
       \/ self.hash_length < ARGON2_MIN_HASH_LENGTH
       \/ self.salt_length < ARGON2_MIN_SALT_LENGTH
       \/ (self.pepper # None /\ ~isinstance_str(self.pepper))
       \/ (truthy(self.pepper) /\ Len(self.pepper) < ARGON2_MIN_PEPPER_LENGTH)
    THEN [exc |-> "InvalidPolicyConfig", msg |-> "", warnings |-> {}, infos |-> {}]
    ELSE [exc |-> "none", msg |-> "", warnings |-> {},
          infos |-> IF ~truthy(self.pepper) THEN {"No pepper configured"} ELSE {}]

Argon2Policy_post_init(self) ==
    LET warned ==
            (IF self.memory_cost < ARGON2_MIN_MEMORY
             THEN {"memory_cost below recommended minimum"} ELSE {})
            \cup (IF self.memory_cost < ARGON2_WARN_MEMORY
                  THEN {"memory_cost below OWASP recommended baseline"} ELSE {})
            \cup (IF self.hash_length < ARGON2_WARN_HASH_LENGTH
                  THEN {"hash_length below OWASP recommended baseline"} ELSE {})
            \cup (IF self.time_cost > ARGON2_MAX_TIME_COST
                  THEN {"time_cost is very high"} ELSE {})
            \cup (IF self.memory_cost > ARGON2_MAX_MEMORY
                  THEN {"memory_cost is extremely high"} ELSE {})
            \cup (IF self.parallelism > ARGON2_MAX_PARALLELISM
                  THEN {"parallelism is unusually high"} ELSE {})
        failed(m) == [exc |-> "InvalidPolicyConfig", msg |-> m,
                      warnings |-> {}, infos |-> {}]
    IN  IF self.time_cost < ARGON2_MIN_TIME_COST
        THEN failed("Argon2 time_cost must be >= 1")
        ELSE IF self.parallelism < ARGON2_MIN_PARALLELISM
        THEN failed("Argon2 parallelism must be >= 1")
        ELSE IF self.hash_length < ARGON2_MIN_HASH_LENGTH
        THEN failed("Argon2 hash_length must be >= 16 bytes")
        ELSE IF self.salt_length < ARGON2_MIN_SALT_LENGTH
        THEN failed("Argon2 salt_length must be >= 16 bytes")
        ELSE IF self.pepper # None /\ ~isinstance_str(self.pepper)
        THEN [exc |-> "InvalidPolicyConfig",
              msg |-> "Argon2 pepper must be a string if provided",
              warnings |-> warned, infos |-> {}]
        ELSE [exc |-> "none", msg |-> "",
              warnings |-> warned \cup
                  (IF truthy(self.pepper) /\ Len(self.pepper) < ARGON2_MIN_PEPPER_LENGTH
                   THEN {"pepper is shorter than 16 characters"} ELSE {}),
              infos |-> IF ~truthy(self.pepper) THEN {"No pepper configured"} ELSE {}]

\* Values on both sides of every threshold.
TimeCosts == {0, 1, 20, 21}
MemoryCosts == {1024, 65536, 131071, 131072, 1048576, 1048577}
Parallelisms == {0, 1, 64, 65}
HashLengths == {15, 16, 31, 32}
SaltLengths == {15, 16}
LongPepper == <<"k", "k", "k", "k", "k", "k", "k", "k",
                "k", "k", "k", "k", "k", "k", "k", "k">>
PolicyPepperInputs == {None, <<>>, <<"k">>, LongPepper, NotText}

\* Argon2Policy(time_cost, memory_cost, parallelism, hash_length, salt_length,
\* pepper) on the submitted fields pol.self: no object exists when
\* __post_init__ raises.
Argon2Policy_new ==
    /\ ~pol.called
    /\ LET r == Argon2Policy_post_init(pol.self)
       IN  pol' = [pol EXCEPT !.called = TRUE, !.exc = r.exc, !.msg = r.msg,
                              !.warnings = r.warnings, !.infos = r.infos,
                              !.obj = IF r.exc = "none" THEN pol.self ELSE NoPolicy]
    /\ UNCHANGED <<idvars, registry, hsr, pwpol, web, cal>>

InitPolicy ==
    /\ users = {}
    /\ nextId = 1
    /\ req = [p \in Procs |-> Idle]
    /\ config = DefaultConfig
    /\ argon = IdleArgon
    /\ now = 0
    /\ issued = {}
    /\ tok = IdleTok
    /\ uq = IdleUq
    /\ registry = {}
    /\ hsr = IdleHsr
    /\ pwpol = IdlePwPol
    /\ web = IdleWeb
    /\ cal = IdleCal
    /\ \E t \in TimeCosts, m \in MemoryCosts, par \in Parallelisms,
          h \in HashLengths, sl \in SaltLengths, k \in PolicyPepperInputs :
           pol = [IdlePol EXCEPT !.self =
                     [time_cost |-> t, memory_cost |-> m, parallelism |-> par,
                      hash_length |-> h, salt_length |-> sl, pepper |-> k]]

NextPolicy == Argon2Policy_new

SpecPolicy == InitPolicy /\ [][NextPolicy]_vars

floors_met(self) ==
    /\ self.time_cost >= 1
    /\ self.parallelism >= 1
    /\ self.hash_length >= 16
    /\ self.salt_length >= 16

\* C19: for every valid input (numeric costs, a pepper that is absent or
\* text), construction succeeds and returns the submitted values when time
\* cost, parallelism, hash length and salt length all meet their floors, and
\* fails with InvalidPolicyConfig, creating no object, as soon as one of the
\* four is below its floor, whatever the other values are.
C19_FloorsDecide ==
    (pol.called /\ (pol.self.pepper = None \/ isinstance_str(pol.self.pepper))) =>
        /\ floors_met(pol.self) => pol.exc = "none" /\ pol.obj = pol.self
        /\ ~floors_met(pol.self) =>
              pol.exc = "InvalidPolicyConfig" /\ pol.obj = NoPolicy

\* A construction failed on the salt length alone, every other value being
\* at its floor or above.
C19_Witness ==
    /\ pol.called
    /\ pol.self.salt_length = 15
    /\ pol.self.time_cost >= 1 /\ pol.self.parallelism >= 1
    /\ pol.self.hash_length >= 16
    /\ pol.exc = "InvalidPolicyConfig"
soft_warnings(self) ==
    (IF self.memory_cost < 131072
     THEN {"memory_cost below OWASP recommended baseline"} ELSE {})
    \cup (IF self.hash_length < 32
          THEN {"hash_length below OWASP recommended baseline"} ELSE {})
    \cup (IF self.time_cost > 20 THEN {"time_cost is very high"} ELSE {})
    \cup (IF self.memory_cost > 1048576 THEN {"memory_cost is extremely high"} ELSE {})
    \cup (IF self.parallelism > 64 THEN {"parallelism is unusually high"} ELSE {})

\* Warnings about the memory cost, the only field with two warnings below.
memory_warnings ==
    {"memory_cost below recommended minimum",
     "memory_cost below OWASP recommended baseline", "memory_cost is extremely high"}

\* C20: when the hard floors are met (and the pepper is absent or text), the
\* construction returns the submitted values unchanged whatever soft
\* thresholds are violated; each violation (memory below 128 MiB, hash
\* length below 32, time cost above 20, memory above 1 GiB, parallelism above
\* 64) has its warning among those emitted, and a field inside its soft
\* thresholds has no warning.
C20_SoftThresholdsWarn ==
    (/\ pol.called
     /\ floors_met(pol.self)
     /\ (pol.self.pepper = None \/ isinstance_str(pol.self.pepper))) =>
        /\ pol.exc = "none"
        /\ pol.obj = pol.self
        /\ soft_warnings(pol.self) \subseteq pol.warnings
        /\ pol.warnings \ soft_warnings(pol.self) \subseteq
              {"memory_cost below recommended minimum",
               "pepper is shorter than 16 characters"}
        /\ (131072 <= pol.self.memory_cost /\ pol.self.memory_cost <= 1048576)
              => pol.warnings \cap memory_warnings = {}

\* A policy with time cost and parallelism above their upper bounds and the
\* hash length below its baseline was built: the object is returned, with at
\* least three warnings.
C20_Witness ==
    /\ pol.called
    /\ pol.exc = "none"
    /\ pol.self.time_cost = 21
    /\ pol.self.parallelism = 65
    /\ pol.self.hash_length = 16
    /\ Cardinality(pol.warnings) >= 3
\* ---------------------------------------------------------------------------
\* app/security/core/registry.py: the algorithm registry.  The dict is the set
\* of its (key, class) entries, at most one per key.
\* ---------------------------------------------------------------------------
MaxRegs == 2

Argon2Name == <<"a", "r", "g", "o", "n", "2">>
HasherNames == { Argon2Name, <<"A", "r", "g", "o", "n", "2">>, <<"d", "u", "m", "m", "y">> }

\* the key is the name as given, not lowercased
decorator_NoFold(reg, name, cls) ==
    {e \in reg : e.key # name} \cup {[key |-> name, cls |-> cls]}

\* register_hasher(name)(cls), lines 31-37: _HASHER_REGISTRY[key] = cls
decorator(reg, name, cls) ==
    LET key == lower(name)
    IN  {e \in reg : e.key # key} \cup {[key |-> key, cls |-> cls]}

\* get_hasher_class, lines 40-56: the class, or the ValueError raised.
get_hasher_class(reg, name) ==
    LET key == lower(name)
    IN  IF ~(\E e \in reg : e.key = key)
        THEN [exc |-> "ValueError", cls |-> "none"]
        ELSE [exc |-> "none", cls |-> (CHOOSE e \in reg : e.key = key).cls]

list_hashers(reg) == { e.key : e \in reg }

\* ---------------------------------------------------------------------------
\* The implementations a name may resolve to: Argon2 (hashes/argon2.py) and
\* the DummyHasher of the test suite.
\* ---------------------------------------------------------------------------
DummyHash == [NoHash EXCEPT !.kind = "dummy-hash"]

DummyHasher_hash(password) == [exc |-> "none", hash |-> DummyHash]

DummyHasher_verify(stored_hash, password) ==
    IF stored_hash = DummyHash THEN "True" ELSE "False"

\* Argon2Policy(): the dataclass defaults
DefaultArgon2Policy ==
    [time_cost |-> 6, memory_cost |-> 102400, parallelism |-> 4,
     hash_length |-> 32, salt_length |-> 16, pepper |-> None]

\* Argon2.__init__: self.policy = policy or Argon2Policy()
Argon2_init(policy) == IF policy = NoPolicy THEN DefaultArgon2Policy ELSE policy

\* ---------------------------------------------------------------------------
\* app/security/core/hasher.py: the facade
\* ---------------------------------------------------------------------------
\* the class is instantiated without the policy
Hasher_init_NoPolicy(reg, variant, policy) ==
    LET c == get_hasher_class(reg, variant)
    IN  IF c.exc # "none" THEN [exc |-> c.exc, obj |-> NoHasher]
        ELSE [exc |-> "none",
              obj |-> [cls |-> c.cls,
                       policy |-> IF c.cls = "Argon2" THEN Argon2_init(NoPolicy)
                                  ELSE NoPolicy,
                       variant |-> lower(variant)]]

\* Hasher.__init__: the object built, or the exception raised.
Hasher_init(reg, variant, policy) ==
    LET c == get_hasher_class(reg, variant)
    IN  IF c.exc # "none" THEN [exc |-> c.exc, obj |-> NoHasher]
        ELSE [exc |-> "none",
              obj |-> [cls |-> c.cls,
                       policy |-> IF c.cls = "Argon2" THEN Argon2_init(policy)
                                  ELSE NoPolicy,
                       variant |-> lower(variant)]]

Hasher_hash(h, password, salt) ==
    IF h.cls = "Argon2" THEN Argon2_hash(h.policy, password, salt)
    ELSE DummyHasher_hash(password)

Hasher_verify(h, stored_hash, password) ==
    IF h.cls = "Argon2" THEN Argon2_verify(h.policy, stored_hash, password)
    ELSE DummyHasher_verify(stored_hash, password)

\* ---------------------------------------------------------------------------
\* app/security/core/factory.py
\* ---------------------------------------------------------------------------
get_argon2_policy(cfg) ==
    [time_cost |-> cfg.ARGON2_TIME_COST, memory_cost |-> cfg.ARGON2_MEMORY_COST,
     parallelism |-> cfg.ARGON2_PARALLELISM, hash_length |-> cfg.ARGON2_HASH_LENGTH,
     salt_length |-> cfg.ARGON2_SALT_LENGTH, pepper |-> cfg.ARGON2_PEPPER]

\* config.get("HASH_VARIANT", "argon2")
configured_variant(cfg) ==
    IF cfg.HASH_VARIANT = None THEN Argon2Name ELSE cfg.HASH_VARIANT

\* SecurityFactory.get_hasher, lines 32-40
SecurityFactory_get_hasher(cfg, reg) ==
    LET variant == configured_variant(cfg)
    IN  IF variant = Argon2Name
        THEN LET policy == get_argon2_policy(cfg)
                 built == Argon2Policy_post_init(policy)
             IN  IF built.exc # "none" THEN [exc |-> built.exc, obj |-> NoHasher]
                 ELSE Hasher_init(reg, variant, policy)
        ELSE [exc |-> "ValueError", obj |-> NoHasher]
\* ---------------------------------------------------------------------------
\* Specification of the hashing facade.  The process starts by importing the
\* package, which runs the register_hasher decorators (the only callers of
\* register_hasher outside the tests are class decorators, hashes/argon2.py
\* line 16); it then serves calls.  hsr.call is the call made in the last
\* step, hsr.log the register calls in order.
\* ---------------------------------------------------------------------------
register_hasher(name, cls) ==
    /\ hsr.phase = "startup"
    /\ Len(hsr.log) < MaxRegs
    /\ registry' = decorator(registry, name, cls)
    /\ hsr' = [hsr EXCEPT !.log = Append(@, [name |-> name, cls |-> cls]),
                          !.call = [NoHasherCall EXCEPT !.op = "register_hasher",
                                                        !.name = name, !.cls = cls,
                                                        !.before = hsr.hasher]]
    /\ UNCHANGED <<idvars, pol, pwpol, web, cal>>

\* The imports are done; the process starts serving.
finish_startup ==
    /\ hsr.phase = "startup"
    /\ hsr' = [hsr EXCEPT !.phase = "serving", !.call = NoHasherCall]
    /\ UNCHANGED <<idvars, registry, pol, pwpol, web, cal>>

\* a miss inserts the default implementation under the requested key
get_hasher_class_call_Defaulting(name) ==
    /\ LET r == get_hasher_class(registry, name)
       IN  /\ hsr' = [hsr EXCEPT !.call =
                        [NoHasherCall EXCEPT !.op = "get_hasher_class", !.name = name,
                                             !.exc = r.exc, !.cls = r.cls,
                                             !.before = hsr.hasher]]
           /\ registry' = IF r.exc = "none" THEN registry
                          ELSE decorator(registry, name, "Argon2")
    /\ UNCHANGED <<idvars, pol, pwpol, web, cal>>

get_hasher_class_call(name) ==
    /\ LET r == get_hasher_class(registry, name)
       IN  hsr' = [hsr EXCEPT !.call =
                     [NoHasherCall EXCEPT !.op = "get_hasher_class", !.name = name,
                                          !.exc = r.exc, !.cls = r.cls,
                                          !.before = hsr.hasher]]
    /\ UNCHANGED <<idvars, registry, pol, pwpol, web, cal>>

\* Hasher(variant, policy)
Hasher_new(variant, policy) ==
    /\ LET r == Hasher_init(registry, variant, policy)
       IN  hsr' = [hsr EXCEPT !.hasher = IF r.exc = "none" THEN r.obj ELSE @,
                              !.call =
                     [NoHasherCall EXCEPT !.op = "Hasher", !.name = variant,
                                          !.policy = policy, !.exc = r.exc,
                                          !.cls = r.obj.cls, !.before = hsr.hasher]]
    /\ UNCHANGED <<idvars, registry, pol, pwpol, web, cal>>

\* SecurityFactory.get_hasher()
get_hasher_call ==
    /\ LET r == SecurityFactory_get_hasher(config, registry)
       IN  hsr' = [hsr EXCEPT !.hasher = IF r.exc = "none" THEN r.obj ELSE @,
                              !.call =
                     [NoHasherCall EXCEPT !.op = "get_hasher", !.exc = r.exc,
                                          !.cls = r.obj.cls, !.before = hsr.hasher]]
    /\ UNCHANGED <<idvars, registry, pol, pwpol, web, cal>>

\* hasher.hash(password)
Hasher_hash_call(password, salt) ==
    /\ hsr.hasher # NoHasher
    /\ LET r == Hasher_hash(hsr.hasher, password, salt)
       IN  hsr' = [hsr EXCEPT !.call =
                     [NoHasherCall EXCEPT !.op = "hash", !.password = password,
                                          !.salt = salt, !.exc = r.exc, !.hash = r.hash,
                                          !.before = hsr.hasher]]
    /\ UNCHANGED <<idvars, registry, pol, pwpol, web, cal>>

\* hasher.verify(stored_hash, password)
Hasher_verify_call(stored_hash, password) ==
    /\ hsr.hasher # NoHasher
    /\ hsr' = [hsr EXCEPT !.call =
                 [NoHasherCall EXCEPT !.op = "verify", !.password = password,
                                      !.stored = stored_hash,
                                      !.answer = Hasher_verify(hsr.hasher, stored_hash,
                                                               password),
                                      !.before = hsr.hasher]]
    /\ UNCHANGED <<idvars, registry, pol, pwpol, web, cal>>

VariantSettings == {None} \cup HasherNames

\* The decorator uses: the shipped one, a second class under the same name
\* in another case, and a test class under its own name or under "argon2".
Registrations ==
    { [name |-> Argon2Name, cls |-> "Argon2"],
      [name |-> <<"A", "r", "g", "o", "n", "2">>, cls |-> "DummyHasher"],
      [name |-> <<"d", "u", "m", "m", "y">>, cls |-> "DummyHasher"],
      [name |-> Argon2Name, cls |-> "DummyHasher"] }
HasherPolicies == { NoPolicy, [DefaultArgon2Policy EXCEPT !.pepper = <<"k">>] }
HasherPasswords == { <<"p">>, <<>> }
HasherStored ==
    { DummyHash, MalformedHash,
      PasswordHasher_hash(DefaultArgon2Policy, <<"p">>, 1),
      PasswordHasher_hash(DefaultArgon2Policy, <<"p", "k">>, 1) }

InitRegistry ==
    /\ users = {}
    /\ nextId = 1
    /\ req = [p \in Procs |-> Idle]
    /\ \E v \in VariantSettings : config = [DefaultConfig EXCEPT !.HASH_VARIANT = v]
    /\ argon = IdleArgon
    /\ now = 0
    /\ issued = {}
    /\ tok = IdleTok
    /\ uq = IdleUq
    /\ registry = {}
    /\ hsr = IdleHsr
    /\ pwpol = IdlePwPol
    /\ web = IdleWeb
    /\ cal = IdleCal
    /\ pol = IdlePol

NextRegistry ==
    \/ \E e \in Registrations : register_hasher(e.name, e.cls)
    \/ finish_startup
    \/ \E n \in HasherNames : get_hasher_class_call(n)
    \/ \E n \in HasherNames, k \in HasherPolicies : Hasher_new(n, k)
    \/ get_hasher_call
    \/ \E w \in HasherPasswords, salt \in Salts : Hasher_hash_call(w, salt)
    \/ \E st \in HasherStored, w \in HasherPasswords : Hasher_verify_call(st, w)

SpecRegistry == InitRegistry /\ [][NextRegistry]_vars

\* What the register calls so far make of a name: the class of the last call
\* whose name has the same lowercase form, or a failure when there is none.
resolved(log, name) ==
    LET idx == { i \in 1..Len(log) : lower(log[i].name) = lower(name) }
    IN  IF idx = {} THEN [exc |-> "ValueError", cls |-> "none"]
        ELSE [exc |-> "none",
              cls |-> log[CHOOSE i \in idx : \A j \in idx : j <= i].cls]

\* C15: after any sequence of register calls, resolve(name) returns the class
\* most recently registered under the lowercase form of name, and fails with
\* the "Unsupported hash variant" error (never a default) when no register
\* call had that lowercase name; every register call succeeds.
C15_ResolveLastRegistered ==
    /\ hsr.call.op = "get_hasher_class" =>
          [exc |-> hsr.call.exc, cls |-> hsr.call.cls] = resolved(hsr.log, hsr.call.name)
    /\ hsr.call.op = "register_hasher" => hsr.call.exc = "none"
    /\ list_hashers(registry) = { lower(hsr.log[i].name) : i \in 1..Len(hsr.log) }

\* A name registered twice, under two spellings and with two classes, was
\* resolved to the second class.
C15_Witness ==
    /\ hsr.call.op = "get_hasher_class"
    /\ hsr.call.exc = "none"
    /\ \E i, j \in 1..Len(hsr.log) :
          /\ i < j
          /\ hsr.log[i].name # hsr.log[j].name
          /\ lower(hsr.log[i].name) = lower(hsr.call.name)
          /\ lower(hsr.log[j].name) = lower(hsr.call.name)
          /\ hsr.log[i].cls # hsr.log[j].cls
          /\ hsr.call.cls = hsr.log[j].cls
C17_FacadeDelegates ==
    LET c == hsr.call
        h == hsr.hasher
        r == resolved(hsr.log, c.name)
    IN  /\ c.op = "Hasher" =>
              /\ c.exc = r.exc
              /\ r.exc # "none" => h = c.before
              /\ r.exc = "none" =>
                    /\ h.cls = r.cls
                    /\ h.variant = lower(c.name)
                    /\ h.cls = "Argon2" =>
                          h.policy = IF c.policy = NoPolicy THEN DefaultArgon2Policy
                                     ELSE c.policy
        /\ c.op = "hash" =>
              /\ h = c.before
              /\ h.cls = "Argon2" =>
                    [exc |-> c.exc, hash |-> c.hash] = Argon2_hash(h.policy, c.password, c.salt)
              /\ h.cls = "DummyHasher" => c.exc = "none" /\ c.hash = DummyHash
        /\ c.op = "verify" =>
              /\ h = c.before
              /\ h.cls = "Argon2" =>
                    c.answer = Argon2_verify(h.policy, c.stored, c.password)
              /\ h.cls = "DummyHasher" =>
                    c.answer = IF c.stored = DummyHash THEN "True" ELSE "False"

\* A Hasher built on a peppered policy verified a hash of password+pepper.
C17_Witness ==
    /\ hsr.call.op = "verify"
    /\ hsr.hasher.cls = "Argon2"
    /\ truthy(hsr.hasher.policy.pepper)
    /\ hsr.call.answer = "True"

\* C18: SecurityFactory.get_hasher returns a Hasher wrapping the registry
\* entry of the configured name whenever that name is registered (names
\* compared case-insensitively), and fails with the "Unsupported hash
\* variant" error exactly when it is not.
C18_FactorySelectsEntry ==
    hsr.call.op = "get_hasher" =>
        LET r == resolved(hsr.log, configured_variant(config))
        IN  /\ r.exc = "none" => hsr.call.exc = "none" /\ hsr.hasher.cls = r.cls
            /\ r.exc # "none" => hsr.call.exc = "ValueError"
\* C21: a pepper that is present but not text makes construction fail with
\* InvalidPolicyConfig; with the hard floors met, a text pepper shorter than
\* 16 characters is accepted with a warning, an absent pepper (None, or the
\* empty text of an unset setting) is accepted with an informational record
\* and no warning, and a text pepper of 16 characters or more is accepted
\* with no pepper diagnostic at all.
C21_PepperHandling ==
    pol.called =>
        LET k == pol.self.pepper
            short == "pepper is shorter than 16 characters"
            absent == "No pepper configured"
        IN  /\ k = NotText => pol.exc = "InvalidPolicyConfig" /\ pol.obj = NoPolicy
            /\ (floors_met(pol.self) /\ k # NotText) =>
                  /\ pol.exc = "none"
                  /\ pol.obj = pol.self
                  /\ (truthy(k) /\ Len(k) < 16) =>
                        short \in pol.warnings /\ absent \notin pol.infos
                  /\ ~truthy(k) =>
                        short \notin pol.warnings /\ absent \in pol.infos
                  /\ (truthy(k) /\ Len(k) >= 16) =>
                        short \notin pol.warnings /\ absent \notin pol.infos

\* A policy with a one-character pepper was built and flagged.
C21_Witness ==
    /\ pol.called
    /\ pol.exc = "none"
    /\ pol.self.pepper = <<"k">>
    /\ "pepper is shorter than 16 characters" \in pol.warnings
\* ---------------------------------------------------------------------------
\* PasswordPolicy on its own: one policy is constructed from drawn field
\* values and, when construction succeeds, validates one drawn password.
\* ---------------------------------------------------------------------------
MinLengths == {0, 1, 3, 11, 12, 13, 128, 129}

TwelveChars == <<"P", "a", "s", "s", "w", "0", "r", "d", "!", "!", "!", "!">>

PolicyPasswords ==
    { <<>>, <<"a">>, <<"A">>, <<"1">>, <<"!">>, <<"A", "a">>, <<"a", "1", "!">>,
      <<"A", "1", "!">>, <<"A", "a", "!">>, <<"A", "a", "1">>, <<"A", "a", "1", "!">>,
      <<"A", "a", "U+0663">>, <<"!", "!", "!">>, TwelveChars }

PasswordPolicy_new ==
    /\ pwpol.phase = "drawn"
    /\ LET r == PasswordPolicy_post_init(pwpol.self)
       IN  pwpol' = [pwpol EXCEPT !.phase = IF r.exc = "none" THEN "built" ELSE "failed",
                                  !.exc = r.exc, !.warnings = r.warnings]
    /\ UNCHANGED <<idvars, registry, hsr, pol, web, cal>>

PasswordPolicy_validate_call ==
    /\ pwpol.phase = "built"
    /\ pwpol' = [pwpol EXCEPT !.phase = "validated",
                              !.result = PasswordPolicy_validate(pwpol.self, pwpol.password)]
    /\ UNCHANGED <<idvars, registry, hsr, pol, web, cal>>

InitStrength ==
    /\ users = {}
    /\ nextId = 1
    /\ req = [p \in Procs |-> Idle]
    /\ config = DefaultConfig
    /\ argon = IdleArgon
    /\ now = 0
    /\ issued = {}
    /\ tok = IdleTok
    /\ uq = IdleUq
    /\ registry = {}
    /\ hsr = IdleHsr
    /\ pol = IdlePol
    /\ web = IdleWeb
    /\ cal = IdleCal
    /\ \E n \in MinLengths, u \in BOOLEAN, l \in BOOLEAN, d \in BOOLEAN,
          s \in BOOLEAN, w \in PolicyPasswords :
           pwpol = [IdlePwPol EXCEPT !.phase = "drawn", !.password = w,
                       !.self = [min_length |-> n, require_upper |-> u, require_lower |-> l,
                                 require_digit |-> d, require_special |-> s]]

NextStrength ==
    \/ PasswordPolicy_new
    \/ PasswordPolicy_validate_call

SpecStrength == InitStrength /\ [][NextStrength]_vars

\* C22: constructing a PasswordPolicy raises InvalidPolicyConfig exactly when
\* min_length is below 1; otherwise it is built, with a warning when
\* min_length is below 12, a warning when it is above 128, and no warning
\* from 12 to 128.
C22_MinLengthFloor ==
    pwpol.phase \in {"built", "failed", "validated"} =>
        LET n == pwpol.self.min_length
        IN  /\ (pwpol.exc = "InvalidPolicyConfig") <=> (n < 1)
            /\ (pwpol.phase = "failed") <=> (n < 1)
            /\ n >= 1 =>
                 /\ pwpol.exc = "none"
                 /\ ("min_length is below recommended minimum" \in pwpol.warnings) <=> (n < 12)
                 /\ ("min_length is unusually high" \in pwpol.warnings) <=> (n > 128)
                 /\ (n >= 12 /\ n <= 128) => pwpol.warnings = {}

\* A policy with min_length 129 was built with the ceiling warning.
C22_Witness ==
    /\ pwpol.phase = "built"
    /\ pwpol.self.min_length = 129
    /\ pwpol.warnings = {"min_length is unusually high"}

\* C23: validate returns exactly when the password has at least min_length
\* characters and a character of every required class; otherwise it raises
\* InvalidPolicyConfig with the message of the first unmet rule in the order
\* length, uppercase, lowercase, digit, special.
C23_ValidateFirstUnmet ==
    pwpol.phase = "validated" =>
        LET policy == pwpol.self
            w == pwpol.password
            long == Len(w) >= policy.min_length
            upper == policy.require_upper => \E i \in 1..Len(w) : w[i] \in UpperChars
            lower_ == policy.require_lower => \E i \in 1..Len(w) : w[i] \in LowerChars
            digit == policy.require_digit => \E i \in 1..Len(w) : w[i] \in DigitChars
            special == policy.require_special => \E i \in 1..Len(w) : is_special(w[i])
            r == pwpol.result
        IN  /\ (r = "ok") <=> (long /\ upper /\ lower_ /\ digit /\ special)
            /\ ~long => r = "Password must be at least min_length characters long."
            /\ (long /\ ~upper) =>
                  r = "Password must contain at least one uppercase letter."
            /\ (long /\ upper /\ ~lower_) =>
                  r = "Password must contain at least one lowercase letter."
            /\ (long /\ upper /\ lower_ /\ ~digit) =>
                  r = "Password must contain at least one digit."
            /\ (long /\ upper /\ lower_ /\ digit /\ ~special) =>
                  r = "Password must contain at least one special character."

\* A password missing both a lowercase letter and a digit was refused for the
\* lowercase letter.
C23_Witness ==
    /\ pwpol.phase = "validated"
    /\ pwpol.self.require_lower
    /\ pwpol.self.require_digit
    /\ pwpol.password = <<"A">>
    /\ pwpol.result = "Password must contain at least one lowercase letter."
\* ---------------------------------------------------------------------------
\* benchmarks/run_configs.py (and its copy benchmarks/calibration.py): the
\* three calibration loops.  Durations are in milliseconds.  cal.lat is the
\* mean that time_call measures for each parameter value, as a set of pairs
\* <<parameter, duration>>; a loop measures a parameter value at most once.
\* ---------------------------------------------------------------------------
MaxProbes == 3

TARGET_TIME == 250

Algorithms == {"pbkdf2", "bcrypt", "argon2"}

seed(alg) ==
    CASE alg = "pbkdf2" -> 10000
      [] alg = "bcrypt" -> 4
      [] alg = "argon2" -> 2

\* the parameter is left as it is
increase_Stuck(alg, n) == n

\* int(iterations * 1.2), rounds += 1, time_cost += 1
increase(alg, n) ==
    IF alg = "pbkdf2" THEN (n * 12) \div 10 ELSE n + 1

RECURSIVE search_value(_, _)
search_value(alg, k) ==
    IF k = 0 THEN seed(alg) ELSE increase(alg, search_value(alg, k - 1))

SearchSequence(alg) == { search_value(alg, k) : k \in 0..MaxProbes }

\* The parameter values given a latency: those of the search sequence, the
\* value under the seed where the library accepts one (iterations, time
\* cost), and one iteration count between the seed and the second value.
Params(alg) ==
    SearchSequence(alg)
    \cup (IF alg = "bcrypt" THEN {} ELSE {seed(alg) - 1})
    \cup (IF alg = "pbkdf2" THEN {seed(alg) + 1} ELSE {})

Durations == {100, 250, 400}

Latencies(alg) ==
    { { <<n, f[n]>> : n \in Params(alg) } : f \in [Params(alg) -> Durations] }

time_call(lat, n) == (CHOOSE m \in lat : m[1] = n)[2]

\* calibrate_*: the statements before the loop
calibrate_begin(alg) ==
    /\ cal.phase = "start"
    /\ cal.alg = alg
    /\ cal' = [cal EXCEPT !.phase = "loop", !.param = seed(alg)]
    /\ UNCHANGED <<idvars, registry, hsr, pol, pwpol, web>>

\* the loop is left only above the target, not at it
calibrate_iteration_Strict(alg) ==
    /\ cal.phase = "loop"
    /\ cal.alg = alg
    /\ LET duration == time_call(cal.lat, cal.param)
       IN  IF duration > TARGET_TIME
           THEN cal' = [cal EXCEPT !.phase = "reported", !.reported = cal.param,
                                   !.tried = Append(@, cal.param)]
           ELSE /\ increase(alg, cal.param) \in Params(alg)
                /\ cal' = [cal EXCEPT !.param = increase(alg, cal.param),
                                      !.tried = Append(@, cal.param)]
    /\ UNCHANGED <<idvars, registry, hsr, pol, pwpol, web>>

\* one pass of "while True": measure, then report and break, or increase.
\* The search stops at the last value of SearchSequence.
calibrate_iteration(alg) ==
    /\ cal.phase = "loop"
    /\ cal.alg = alg
    /\ LET duration == time_call(cal.lat, cal.param)
       IN  IF duration >= TARGET_TIME
           THEN cal' = [cal EXCEPT !.phase = "reported", !.reported = cal.param,
                                   !.tried = Append(@, cal.param)]
           ELSE /\ increase(alg, cal.param) \in Params(alg)
                /\ cal' = [cal EXCEPT !.param = increase(alg, cal.param),
                                      !.tried = Append(@, cal.param)]
    /\ UNCHANGED <<idvars, registry, hsr, pol, pwpol, web>>

calibrate_pbkdf2 == calibrate_begin("pbkdf2")
calibrate_pbkdf2_loop == calibrate_iteration("pbkdf2")
calibrate_bcrypt == calibrate_begin("bcrypt")
calibrate_bcrypt_loop == calibrate_iteration("bcrypt")
calibrate_argon2 == calibrate_begin("argon2")
calibrate_argon2_loop == calibrate_iteration("argon2")

InitCal ==
    /\ users = {}
    /\ nextId = 1
    /\ req = [p \in Procs |-> Idle]
    /\ config = DefaultConfig
    /\ argon = IdleArgon
    /\ now = 0
    /\ issued = {}
    /\ tok = IdleTok
    /\ uq = IdleUq
    /\ registry = {}
    /\ hsr = IdleHsr
    /\ pol = IdlePol
    /\ pwpol = IdlePwPol
    /\ web = IdleWeb
    /\ \E alg \in Algorithms : \E lat \in Latencies(alg) :
           cal = [IdleCal EXCEPT !.phase = "start", !.alg = alg, !.lat = lat]

NextCal ==
    \/ calibrate_pbkdf2
    \/ calibrate_pbkdf2_loop
    \/ calibrate_bcrypt
    \/ calibrate_bcrypt_loop
    \/ calibrate_argon2
    \/ calibrate_argon2_loop

SpecCal == InitCal /\ [][NextCal]_vars

\* The loops run in one thread that nothing suspends: a pass that can be
\* made is made.
SpecCalFair == SpecCal /\ WF_vars(NextCal)

non_decreasing(lat) ==
    \A a \in lat, b \in lat : a[1] <= b[1] => a[2] <= b[2]

reaching(lat) == { m[1] : m \in { x \in lat : x[2] >= TARGET_TIME } }

least(S) == CHOOSE n \in S : \A m \in S : n <= m

first_reaching_tried ==
    /\ cal.reported = cal.tried[Len(cal.tried)]
    /\ cal.reported \in reaching(cal.lat)
    /\ \A i \in 1..Len(cal.tried) :
          /\ cal.tried[i] = search_value(cal.alg, i - 1)
          /\ i < Len(cal.tried) => cal.tried[i] \notin reaching(cal.lat)

\* C24 as stated: a search reports the first value of its sequence that
\* measures at or above the target, every value before it measured below,
\* and under a non-decreasing latency the reported value is the smallest
\* parameter value that reaches the target.
C24_ReportsSmallestParameter ==
    cal.phase = "reported" =>
        /\ first_reaching_tried
        /\ non_decreasing(cal.lat) => cal.reported = least(reaching(cal.lat))

\* C24, amended: a search reports the first value of its sequence that
\* measures at or above the target, every value before it measured below,
\* and under a non-decreasing latency the reported value is the smallest
\* value of the search sequence that reaches the target: no parameter value
\* from the seed up to the last value measured below the target reaches it,
\* so for the searches that step by 1 the reported value is the smallest
\* parameter value not under the seed that reaches the target.
C24_ReportsSmallestOfSequence ==
    cal.phase = "reported" =>
        /\ first_reaching_tried
        /\ non_decreasing(cal.lat) =>
              /\ cal.reported = least(reaching(cal.lat) \cap SearchSequence(cal.alg))
              /\ \A n \in reaching(cal.lat) :
                    n >= seed(cal.alg) =>
                        \A i \in 1..(Len(cal.tried) - 1) : n > cal.tried[i]
              /\ cal.alg # "pbkdf2" =>
                    cal.reported = least({ n \in reaching(cal.lat) : n >= seed(cal.alg) })

\* The PBKDF2 search reported its third value under a non-decreasing latency.
C24_Witness ==
    /\ cal.phase = "reported"
    /\ cal.alg = "pbkdf2"
    /\ non_decreasing(cal.lat)
    /\ cal.tried = <<10000, 12000, 14400>>
    /\ cal.reported = 14400
\* Within the values searched, "unbounded" is a latency that reaches the
\* target at the last value of the search sequence.
reaches_target(alg, lat) == search_value(alg, MaxProbes) \in reaching(lat)

\* C30: every pass of a calibration loop that measures below the target
\* leaves the parameter strictly greater, and a loop started on a latency
\* that is non-decreasing and reaches the target eventually reports a value.
C30_LoopsTerminate ==
    /\ [][(cal.phase = "loop" /\ cal'.phase = "loop") => cal'.param > cal.param]_vars
    /\ (cal.phase = "start" /\ non_decreasing(cal.lat) /\ reaches_target(cal.alg, cal.lat))
          ~> (cal.phase = "reported" /\ cal.reported \in reaching(cal.lat))

\* The bcrypt search went through two increments and then reported.
C30_Witness ==
    /\ cal.phase = "reported"
    /\ cal.alg = "bcrypt"
    /\ non_decreasing(cal.lat)
    /\ cal.tried = <<4, 5, 6>>
\* ---------------------------------------------------------------------------
\* Canonical and display forms of the stored rows (specification Spec).
\* ---------------------------------------------------------------------------
\* C27: every stored row has username_canonical = lower(username_display)
\* and email_canonical = lower(email_display), after construction and after
\* any update_profile calls; and a step of update_profile leaves both email
\* columns and password_hash of every row as they were.
C27_CanonicalIsLoweredDisplay ==
    /\ [](\A u \in users :
            /\ u.username_canonical = lower(u.username_display)
            /\ u.email_canonical = lower(u.email_display))
    /\ [][(\E p \in Procs : req[p].op = "update_profile" \/ req'[p].op = "update_profile")
            => /\ {u.id : u \in users'} = {u.id : u \in users}
               /\ \A u \in users :
                     LET v == row_of(users', u.id)
                     IN  /\ v.email_canonical = u.email_canonical
                         /\ v.email_display = u.email_display
                         /\ v.password_hash = u.password_hash]_vars

\* update_profile renamed a user to "A"; the row holds "A" and "a".
C27_Witness ==
    /\ req[1].op = "update_profile"
    /\ req[1].pc = "done"
    /\ req[1].exc = "none"
    /\ req[1].username = <<"A">>
    /\ \E u \in users :
          /\ u.id = req[1].uid
          /\ u.username_display = <<"A">>
          /\ u.username_canonical = <<"a">>
          /\ u.password_hash # NoHash

\* C29: every stored row has a non-empty canonical username and a non-empty
\* canonical email, whitespace-only inputs to register_user and
\* update_profile included.
C29_CanonicalNonEmpty ==
    \A u \in users :
        /\ u.username_canonical # <<>>
        /\ u.email_canonical # <<>>
\* ---------------------------------------------------------------------------
\* app/routes.py: login, logout, follow, unfollow and reset_password_request,
\* with the model methods and the mail helper they call.  web.session is the
\* id of current_user (0: anonymous), web.followers the rows (follower_id,
\* followed_id) of the association table, web.outbox the mails handed to the
\* sending thread, web.last the view called in the last step: the session
\* before it, the form data, the user the query found, and the response.
\* ---------------------------------------------------------------------------
\* wtforms DataRequired: the data, stripped, must not be empty
DataRequired(data) == truthy(data) /\ truthy(strip(data))

by_username(rows, username) ==
    { u \in rows : u.username_canonical = lower(username) }

by_email(rows, email) ==
    { u \in rows : u.email_canonical = email }

responded(view, status, target, flash) ==
    [NoView EXCEPT !.view = view, !.before = web.session, !.status = status,
                   !.target = target, !.flash = flash]

\* the password is not checked
login_AnyPassword(username, password) ==
    /\ LET form == [responded("login", "render", "login.html", "")
                      EXCEPT !.username = username, !.password = password]
           found == by_username(users, username)
       IN  IF web.session # 0
           THEN web' = [web EXCEPT !.last =
                          [form EXCEPT !.status = "redirect", !.target = "main.index"]]
           ELSE IF ~(DataRequired(username) /\ DataRequired(password))
           THEN web' = [web EXCEPT !.last = form]
           ELSE IF found = {}
           THEN web' = [web EXCEPT !.last =
                          [form EXCEPT !.status = "redirect", !.target = "main.login",
                                       !.flash = "Invalid username or password"]]
           ELSE LET user == CHOOSE u \in found : TRUE
                IN  web' = [web EXCEPT !.session = user.id,
                               !.last = [form EXCEPT !.user = user.id,
                                                     !.status = "redirect",
                                                     !.target = "main.user"]]
    /\ UNCHANGED <<idvars, registry, hsr, pol, pwpol, cal>>

\* login, POST: current_user check, form validation, query on the lowercased
\* username, check_password, login_user.
login(username, password) ==
    /\ LET form == [responded("login", "render", "login.html", "")
                      EXCEPT !.username = username, !.password = password]
           found == by_username(users, username)
       IN  IF web.session # 0
           THEN web' = [web EXCEPT !.last =
                          [form EXCEPT !.status = "redirect", !.target = "main.index"]]
           ELSE IF ~(DataRequired(username) /\ DataRequired(password))
           THEN web' = [web EXCEPT !.last = form]
           ELSE IF found = {}
           THEN web' = [web EXCEPT !.last =
                          [form EXCEPT !.status = "redirect", !.target = "main.login",
                                       !.flash = "Invalid username or password"]]
           ELSE LET user == CHOOSE u \in found : TRUE
                    checked == check_password(config, user, password)
                IN  IF checked = "False"
                    THEN web' = [web EXCEPT !.last =
                                   [form EXCEPT !.user = user.id,
                                                !.status = "redirect",
                                                !.target = "main.login",
                                                !.flash = "Invalid username or password"]]
                    ELSE IF checked = "True"
                    THEN web' = [web EXCEPT !.session = user.id,
                                   !.last = [form EXCEPT !.user = user.id,
                                                         !.status = "redirect",
                                                         !.target = "main.user"]]
                    ELSE web' = [web EXCEPT !.last =
                                   [form EXCEPT !.user = user.id, !.status = "error",
                                                !.target = checked]]
    /\ UNCHANGED <<idvars, registry, hsr, pol, pwpol, cal>>

logout ==
    /\ web' = [web EXCEPT !.session = 0,
                          !.last = responded("logout", "redirect", "main.index", "")]
    /\ UNCHANGED <<idvars, registry, hsr, pol, pwpol, cal>>

User_is_following(table, self, user) == <<self, user>> \in table

User_follow(table, self, user) ==
    IF ~User_is_following(table, self, user) THEN table \cup {<<self, user>>} ELSE table

\* the row is left in the table
User_unfollow_Kept(table, self, user) == table

User_unfollow(table, self, user) ==
    IF User_is_following(table, self, user) THEN table \ {<<self, user>>} ELSE table

\* _relationship_count over self.following / self.followers: the rows of the
\* association table joined to users
User_following_count(table, rows, self) ==
    Cardinality({ e \in table : e[1] = self /\ \E u \in rows : u.id = e[2] })

User_followers_count(table, rows, self) ==
    Cardinality({ e \in table : e[2] = self /\ \E u \in rows : u.id = e[1] })

\* follow and unfollow, POST: login_required, query on the lowercased name,
\* not found, self, else the model method and commit.
follow_view(view, username) ==
    /\ LET form == [responded(view, "redirect", "main.index", "")
                      EXCEPT !.username = username]
           found == by_username(users, username)
       IN  IF web.session = 0
           THEN web' = [web EXCEPT !.last = [form EXCEPT !.target = "main.login"]]
           ELSE IF found = {}
           THEN web' = [web EXCEPT !.last = [form EXCEPT !.flash = "User not found."]]
           ELSE LET user == CHOOSE u \in found : TRUE
                    seen == [form EXCEPT !.user = user.id, !.target = "main.user"]
                IN  IF user.id = web.session
                    THEN web' = [web EXCEPT !.last =
                            [seen EXCEPT !.flash =
                                IF view = "follow" THEN "You cannot follow yourself!"
                                ELSE "You cannot unfollow yourself!"]]
                    ELSE web' = [web EXCEPT
                            !.followers =
                                IF view = "follow"
                                THEN User_follow(@, web.session, user.id)
                                ELSE User_unfollow(@, web.session, user.id),
                            !.last =
                                [seen EXCEPT !.called = view,
                                    !.flash = IF view = "follow" THEN "You are following"
                                              ELSE "You have unfollowed"]]
    /\ UNCHANGED <<idvars, registry, hsr, pol, pwpol, cal>>

follow(username) == follow_view("follow", username)

unfollow(username) == follow_view("unfollow", username)

DEFAULT_EXPIRES_IN == 600

\* the mail is also sent when no user has the address
reset_password_request_MailAlways(email) ==
    /\ LET form == [responded("reset_password_request", "render",
                              "reset_password_request.html", "")
                      EXCEPT !.email = email]
           token == generate_reset_token(config, now, 1, DEFAULT_EXPIRES_IN)
           mail == [to |-> lower(strip(email)), token |-> token]
       IN  IF web.session # 0
           THEN /\ web' = [web EXCEPT !.last =
                            [form EXCEPT !.status = "redirect", !.target = "main.index"]]
                /\ UNCHANGED issued
           ELSE IF ~DataRequired(email)
           THEN /\ web' = [web EXCEPT !.last = form]
                /\ UNCHANGED issued
           ELSE /\ issued' = issued \cup {token}
                /\ web' = [web EXCEPT !.outbox = @ \cup {mail},
                       !.last = [form EXCEPT !.mails = {mail},
                            !.status = "redirect", !.target = "main.login",
                            !.flash = "Check your email for the instructions to reset your password"]]
    /\ UNCHANGED <<users, nextId, req, config, argon, now, tok, uq, registry, hsr, pol, pwpol, cal>>

\* reset_password_request, POST: current_user check, form validation, query
\* on the stripped, lowercased address, send_password_reset_email (token,
\* then the mail to user.email_canonical), flash and redirect.
reset_password_request(email) ==
    /\ LET form == [responded("reset_password_request", "render",
                              "reset_password_request.html", "")
                      EXCEPT !.email = email]
           found == by_email(users, lower(strip(email)))
           sent == [form EXCEPT !.status = "redirect", !.target = "main.login",
                       !.flash = "Check your email for the instructions to reset your password"]
       IN  IF web.session # 0
           THEN /\ web' = [web EXCEPT !.last =
                            [form EXCEPT !.status = "redirect", !.target = "main.index"]]
                /\ UNCHANGED issued
           ELSE IF ~DataRequired(email)
           THEN /\ web' = [web EXCEPT !.last = form]
                /\ UNCHANGED issued
           ELSE IF found = {}
           THEN /\ web' = [web EXCEPT !.last = sent]
                /\ UNCHANGED issued
           ELSE LET user == CHOOSE u \in found : TRUE
                    token == generate_reset_token(config, now, user.id, DEFAULT_EXPIRES_IN)
                    mail == [to |-> user.email_canonical, token |-> token]
                IN  /\ issued' = issued \cup {token}
                    /\ web' = [web EXCEPT !.outbox = @ \cup {mail},
                                          !.last = [sent EXCEPT !.user = user.id,
                                                                !.mails = {mail}]]
    /\ UNCHANGED <<users, nextId, req, config, argon, now, tok, uq, registry, hsr, pol, pwpol, cal>>

LoginNames == { <<"a">>, <<"A">>, <<"b">>, <<"m">>, <<" ", "a">>, <<>> }
LoginPasswords == { <<"p">>, <<"q">>, <<>> }
FollowNames == { <<"a">>, <<"B">>, <<"d">>, <<"m">> }
ResetEmails == { <<"x">>, <<"X">>, <<"y">>, <<"m">>, <<>> }

\* Three registered users.
InitWeb ==
    /\ users = { Registered(1, <<"A">>, <<"X">>, <<"p">>),
                 Registered(2, <<"b">>, <<"y">>, <<"q">>),
                 Registered(3, <<"d">>, <<"k">>, <<"p">>) }
    /\ nextId = 4
    /\ req = [p \in Procs |-> Idle]
    /\ config = DefaultConfig
    /\ argon = IdleArgon
    /\ now = 0
    /\ issued = {}
    /\ tok = IdleTok
    /\ uq = IdleUq
    /\ registry = {}
    /\ hsr = IdleHsr
    /\ pol = IdlePol
    /\ pwpol = IdlePwPol
    /\ web = IdleWeb
    /\ cal = IdleCal

NextWeb ==
    \/ \E u \in LoginNames, w \in LoginPasswords : login(u, w)
    \/ logout
    \/ \E u \in FollowNames : follow(u)
    \/ \E u \in FollowNames : unfollow(u)
    \/ \E e \in ResetEmails : reset_password_request(e)

SpecWeb == InitWeb /\ [][NextWeb]_vars

authenticates(username, password) ==
    { u \in users : /\ u.username_canonical = lower(username)
                    /\ check_password(config, u, password) = "True" }

\* C25 as stated: a login from an anonymous session logs in exactly when a
\* user has username_canonical = lower(submitted username) and a hash that
\* verifies the submitted password, as that user; otherwise the session
\* stays anonymous and the response is the flash 'Invalid username or
\* password' with a redirect to the login page.
C25_LoginOutcome ==
    (web.last.view = "login" /\ web.last.before = 0) =>
        LET ok == authenticates(web.last.username, web.last.password)
        IN  /\ (web.session # 0) <=> (ok # {})
            /\ ok # {} => \E u \in ok : web.session = u.id
            /\ ok = {} =>
                  /\ web.last.status = "redirect"
                  /\ web.last.target = "main.login"
                  /\ web.last.flash = "Invalid username or password"

\* C25, amended: a login from an anonymous session logs in exactly when a
\* user has username_canonical = lower(submitted username) and a hash that
\* verifies the submitted password, as that user; otherwise the session
\* stays anonymous, and when username and password are both filled in the
\* response is the flash 'Invalid username or password' with a redirect to
\* the login page, for an unknown username as for a wrong password; with a
\* blank username or password the login form is rendered again without that
\* flash, whether or not the username is known.
C25_LoginOutcomeFilledIn ==
    (web.last.view = "login" /\ web.last.before = 0) =>
        LET ok == authenticates(web.last.username, web.last.password)
            filled == DataRequired(web.last.username) /\ DataRequired(web.last.password)
        IN  /\ (web.session # 0) <=> (ok # {})
            /\ ok # {} => \E u \in ok : web.session = u.id
            /\ (ok = {} /\ filled) =>
                  /\ web.last.status = "redirect"
                  /\ web.last.target = "main.login"
                  /\ web.last.flash = "Invalid username or password"
            /\ ~filled =>
                  /\ web.last.status = "render"
                  /\ web.last.target = "login.html"
                  /\ web.last.flash = ""

\* A known user's login with another user's password was refused.
C25_Witness ==
    /\ web.last.view = "login"
    /\ web.last.before = 0
    /\ web.last.username = <<"a">>
    /\ web.last.password = <<"q">>
    /\ web.last.user = 1
    /\ web.session = 0
    /\ web.last.flash = "Invalid username or password"
\* C26: for distinct users a and b, a.follow(b) leaves a following b and
\* changes nothing when a already follows b (the table holds at most the one
\* row a->b), a.unfollow(b) leaves a not following b and changes nothing
\* when a does not follow b, neither touches any other row, and at every
\* point following_count and followers_count of every user equal the number
\* of users it follows and the number of users following it.
C26_FollowUnfollow ==
    /\ [](\A a \in users :
            /\ User_following_count(web.followers, users, a.id)
                  = Cardinality({ b \in users : User_is_following(web.followers, a.id, b.id) })
            /\ User_followers_count(web.followers, users, a.id)
                  = Cardinality({ b \in users : User_is_following(web.followers, b.id, a.id) }))
    /\ [][LET a == web.session
              b == web'.last.user
              row == <<a, b>>
          IN  /\ web'.last.called # "none" => a # 0 /\ b # 0 /\ a # b
              /\ web'.last.called = "follow" =>
                    /\ User_is_following(web'.followers, a, b)
                    /\ User_is_following(web.followers, a, b) => web'.followers = web.followers
                    /\ web'.followers \ {row} = web.followers \ {row}
              /\ web'.last.called = "unfollow" =>
                    /\ ~User_is_following(web'.followers, a, b)
                    /\ ~User_is_following(web.followers, a, b) => web'.followers = web.followers
                    /\ web'.followers \ {row} = web.followers \ {row}]_vars

\* User 1 follows users 2 and 3 and is followed by user 2; the last call was
\* a follow of user 2.
C26_Witness ==
    /\ web.session = 1
    /\ web.last.called = "follow"
    /\ web.last.user = 2
    /\ web.followers = { <<1, 2>>, <<1, 3>>, <<2, 1>> }
    /\ User_following_count(web.followers, users, 1) = 2
    /\ User_followers_count(web.followers, users, 1) = 1

has_email(email) == by_email(users, lower(strip(email)))

reset_mail_sent ==
    /\ web.last.mails # {} <=> has_email(web.last.email) # {}
    /\ \A m \in web.last.mails :
          /\ m \in web.outbox
          /\ m.token \in issued
          /\ \E u \in has_email(web.last.email) :
                /\ m.to = u.email_canonical
                /\ m.token = generate_reset_token(config, now, u.id, DEFAULT_EXPIRES_IN)

reset_hashes_kept ==
    [][web'.last.view = "reset_password_request" =>
          /\ {u.id : u \in users'} = {u.id : u \in users}
          /\ \A u \in users : row_of(users', u.id).password_hash = u.password_hash]_vars

====
